---- MODULE Spec2Model ----
(***************************************************************************)
(* Daily Diary pipeline: normalization of the raw structured data          *)
(* (utils/gemini_processor.py) into a DailyDiaryData record                *)
(* (utils/data_models.py), its validation and its dict round trip.         *)
(*                                                                         *)
(* Python values are modelled as tagged records: see S, I, B, L, D, None.  *)
(* A Python str is a sequence of one-character strings.                    *)
(***************************************************************************)
EXTENDS Integers, Sequences, FiniteSets, TLC

VARIABLES
    raw,        \* structured_data handed to convert_to_daily_diary_data
    record,     \* the DailyDiaryData under work (None before normalization returns)
    again,      \* convert_to_daily_diary_data(record.to_dict()), once computed
    restored,   \* DailyDiaryData.from_dict(record.to_dict()), once computed
    result,     \* what record.validate() did, once called
    response,   \* what self.model.generate_content did in extract_site_report_data
    calls,      \* how many times generate_content has been called
    uploaded_file,  \* the file handed to extract_text_from_pdf
    raw_text,   \* what extract_text_from_pdf returned, once called
    ocr_called, \* whether extract_text_from_pdf called _extract_with_ocr
    text_content,   \* text_content of extract_text_from_pdf when post-processing starts
    canvas,     \* what generate_daily_diary_pdf has drawn on its canvas
    output,     \* what generate_daily_diary_pdf returned or raised, once called
    cursor,     \* the values current_y of generate_daily_diary_pdf has taken
    reportlab,  \* how the canvas library behaves during generate_daily_diary_pdf
    session_state,  \* st.session_state of app.py
    pc          \* the stage the invocation is in

vars == <<raw, record, again, restored, result, response, calls, uploaded_file, raw_text, ocr_called,
          text_content, canvas, output, cursor, reportlab, session_state, pc>>

\* the variables of text extraction and of rendering
pdfvars == <<uploaded_file, raw_text, ocr_called, text_content>>
rendervars == <<canvas, output, cursor, reportlab>>
\* the variables of the pages of app.py
appvars == <<session_state>>

----------------------------------------------------------------------------
\* Bounds of the model

\* the longest raw text, counted in tokens of TextTokens
MaxTokens == 3
\* the longest raw list section
MaxRows == 3
\* the most pieces a response text of the extraction model is made of
MaxChunks == 3
\* the most pages an uploaded file has
MaxPages == 2
\* the most rows a list section has beyond the slots the form has for it
MaxOver == 12
\* the length of the long texts of a record to render: in a wide cell, and in the
\* name cell of a sub-column
LongRun == 90
ShortRun == 24

----------------------------------------------------------------------------
\* Python values

None == [t |-> "none"]
S(s) == [t |-> "str", v |-> s]
I(n) == [t |-> "int", v |-> n]
B(b) == [t |-> "bool", v |-> b]
L(l) == [t |-> "list", v |-> l]
D(d) == [t |-> "dict", v |-> d]

IsStr(x) == x.t = "str"
IsList(x) == x.t = "list"
IsDict(x) == x.t = "dict"

\* dict.get(key, default)
Get(d, key, default) == IF key \in DOMAIN d THEN d[key] ELSE default

\* truthiness of a value: `if value`, bool(value)
Truthy(x) ==
    CASE x.t = "none" -> FALSE
      [] x.t = "str"  -> x.v # <<>>
      [] x.t = "int"  -> x.v # 0
      [] x.t = "bool" -> x.v
      [] x.t = "list" -> x.v # <<>>
      [] x.t = "dict" -> DOMAIN x.v # {}

----------------------------------------------------------------------------
\* Characters

LowerSeq == << "a","b","c","d","e","f","g","h","i","j","k","l","m",
               "n","o","p","q","r","s","t","u","v","w","x","y","z" >>
UpperSeq == << "A","B","C","D","E","F","G","H","I","J","K","L","M",
               "N","O","P","Q","R","S","T","U","V","W","X","Y","Z" >>
DigitSeq == << "0","1","2","3","4","5","6","7","8","9" >>

Lower == { LowerSeq[i] : i \in 1..26 }
Upper == { UpperSeq[i] : i \in 1..26 }
Digit == { DigitSeq[i] : i \in 1..10 }
\* \s
Space == { " ", "\t", "\n" }
\* the quote characters of the artifact pattern ["'\s]
Quote == { "\"", "'" }
\* [a-z] under re.IGNORECASE
Letter == Lower \cup Upper
\* \w
WordChar == Letter \cup Digit \cup { "_" }

\* str.upper() on one character
UpperOf(c) == IF c \in Lower THEN UpperSeq[CHOOSE i \in 1..26 : LowerSeq[i] = c] ELSE c
\* str.lower() on one character
LowerOf(c) == IF c \in Upper THEN LowerSeq[CHOOSE i \in 1..26 : UpperSeq[i] = c] ELSE c

\* the value of a decimal digit
DigitVal(c) == (CHOOSE i \in 1..10 : DigitSeq[i] = c) - 1

\* int(s) for a string of decimal digits
RECURSIVE IntOf(_)
IntOf(s) == IF s = <<>> THEN 0
            ELSE 10 * IntOf(SubSeq(s, 1, Len(s) - 1)) + DigitVal(s[Len(s)])

\* str(n) for n >= 0
RECURSIVE Decimal(_)
Decimal(n) == IF n < 10 THEN << DigitSeq[n + 1] >>
              ELSE Decimal(n \div 10) \o << DigitSeq[(n % 10) + 1] >>

\* str(value)
Str(x) ==
    CASE x.t = "str"  -> x.v
      [] x.t = "int"  -> Decimal(x.v)
      [] x.t = "none" -> << "N","o","n","e" >>
      [] x.t = "bool" -> IF x.v THEN << "T","r","u","e" >> ELSE << "F","a","l","s","e" >>
      [] OTHER        -> << "?" >>

----------------------------------------------------------------------------
\* String helpers

\* s[i:] (1-based i)
From(s, i) == SubSeq(s, i, Len(s))

\* str.strip()
RECURSIVE LStrip(_)
LStrip(s) == IF s # <<>> /\ s[1] \in Space THEN LStrip(Tail(s)) ELSE s
RECURSIVE RStrip(_)
RStrip(s) == IF s # <<>> /\ s[Len(s)] \in Space THEN RStrip(SubSeq(s, 1, Len(s) - 1)) ELSE s
Strip(s) == RStrip(LStrip(s))

\* re.sub(r'\s+', ' ', s): every run of whitespace becomes one space
RECURSIVE CollapseSpace(_)
CollapseSpace(s) ==
    IF s = <<>> THEN <<>>
    ELSE IF s[1] \in Space
         THEN << " " >> \o CollapseSpace(LStrip(s))
         ELSE << s[1] >> \o CollapseSpace(Tail(s))

\* ' '.join(s.split())
SplitJoin(s) == CollapseSpace(Strip(s))

\* re.sub(r'^["\'\s]+|["\'\s]+$', '', s)
RECURSIVE LStripArtifacts(_)
LStripArtifacts(s) ==
    IF s # <<>> /\ s[1] \in (Quote \cup Space) THEN LStripArtifacts(Tail(s)) ELSE s
RECURSIVE RStripArtifacts(_)
RStripArtifacts(s) ==
    IF s # <<>> /\ s[Len(s)] \in (Quote \cup Space)
    THEN RStripArtifacts(SubSeq(s, 1, Len(s) - 1)) ELSE s
StripArtifacts(s) == RStripArtifacts(LStripArtifacts(s))

\* re.sub(r'([a-z])([A-Z])', r'\1 \2', s)
RECURSIVE SplitCamel(_)
SplitCamel(s) ==
    IF Len(s) < 2 THEN s
    ELSE IF s[1] \in Lower /\ s[2] \in Upper
         THEN << s[1], " ", s[2] >> \o SplitCamel(From(s, 3))
         ELSE << s[1] >> \o SplitCamel(Tail(s))

\* word matches s at position i, ignoring case
MatchAt(word, s, i) ==
    /\ i + Len(word) - 1 <= Len(s)
    /\ \A k \in 1..Len(word) : LowerOf(s[i + k - 1]) = word[k]

\* re.sub(word + r'([a-z])', word + r' \1', s, flags=re.IGNORECASE)
RECURSIVE SubWordThenLetter(_, _)
SubWordThenLetter(word, s) ==
    IF s = <<>> THEN <<>>
    ELSE IF /\ MatchAt(word, s, 1)
            /\ Len(s) > Len(word)
            /\ s[Len(word) + 1] \in Letter
         THEN word \o << " ", s[Len(word) + 1] >>
                   \o SubWordThenLetter(word, From(s, Len(word) + 2))
         ELSE << s[1] >> \o SubWordThenLetter(word, Tail(s))

\* re.sub(r'([a-z])' + word + r'\b', r'\1 ' + word, s, flags=re.IGNORECASE)
RECURSIVE SubLetterThenWord(_, _)
SubLetterThenWord(word, s) ==
    IF s = <<>> THEN <<>>
    ELSE IF /\ s[1] \in Letter
            /\ MatchAt(word, s, 2)
            /\ (Len(s) = Len(word) + 1 \/ s[Len(word) + 2] \notin WordChar)
         THEN << s[1], " " >> \o word
                   \o SubLetterThenWord(word, From(s, Len(word) + 2))
         ELSE << s[1] >> \o SubLetterThenWord(word, Tail(s))

\* the vocabulary of word_patterns
W_loading == << "l","o","a","d","i","n","g" >>
W_material == << "m","a","t","e","r","i","a","l" >>
W_concrete == << "c","o","n","c","r","e","t","e" >>
W_steel == << "s","t","e","e","l" >>
W_excavation == << "e","x","c","a","v","a","t","i","o","n" >>
W_construction == << "c","o","n","s","t","r","u","c","t","i","o","n" >>
W_equipment == << "e","q","u","i","p","m","e","n","t" >>
W_work == << "w","o","r","k" >>
W_site == << "s","i","t","e" >>
W_area == << "a","r","e","a" >>
W_pipe == << "p","i","p","e" >>
W_road == << "r","o","a","d" >>
W_bridge == << "b","r","i","d","g","e" >>

\* the patterns whose word comes first, in list order
WordsBefore == << W_loading, W_material, W_concrete, W_steel,
                  W_excavation, W_construction, W_equipment >>
\* the patterns whose word comes last, in list order
WordsAfter == << W_work, W_site, W_area, W_pipe, W_road, W_bridge >>

\* for pattern, replacement in word_patterns: cleaned = re.sub(...)
RECURSIVE ApplyBefore(_, _)
ApplyBefore(k, s) ==
    IF k > Len(WordsBefore) THEN s
    ELSE ApplyBefore(k + 1, SubWordThenLetter(WordsBefore[k], s))
RECURSIVE ApplyAfter(_, _)
ApplyAfter(k, s) ==
    IF k > Len(WordsAfter) THEN s
    ELSE ApplyAfter(k + 1, SubLetterThenWord(WordsAfter[k], s))
ApplyWordPatterns(s) == ApplyAfter(1, ApplyBefore(1, s))

W_null == << "n","u","l","l" >>

\* GeminiProcessor._clean_text
CleanText(text) ==
    IF text = <<>> \/ text = W_null THEN <<>>
    ELSE SplitJoin(ApplyWordPatterns(SplitCamel(StripArtifacts(SplitJoin(text)))))

----------------------------------------------------------------------------
\* Dates

\* n characters of `set` start at position p of s
RunAt(s, p, n, set) == p + n - 1 <= Len(s) /\ \A k \in 0..(n - 1) : s[p + k] \in set

\* the length of the longest run of characters of `set` starting at p
RECURSIVE RunLen(_, _, _)
RunLen(s, p, set) == IF p <= Len(s) /\ s[p] \in set THEN 1 + RunLen(s, p + 1, set) ELSE 0

\* [/-]
DateSep == { "/", "-" }

\* str.zfill(2) of a string that starts with neither '+' nor '-'
Zfill2(s) == IF Len(s) < 2 THEN [k \in 1..(2 - Len(s)) |-> "0"] \o s ELSE s

\* f"{day.zfill(2)}-{month.zfill(2)}-{year}"
FormatDate(day, month, year) == Zfill2(day) \o << "-" >> \o Zfill2(month) \o << "-" >> \o year

\* r'(\d{1,2})[/-](\d{1,2})[/-](\d{4})' matched at p with groups of a and b digits
MatchDMY(s, p, a, b) ==
    /\ RunAt(s, p, a, Digit)
    /\ RunAt(s, p + a, 1, DateSep)
    /\ RunAt(s, p + a + 1, b, Digit)
    /\ RunAt(s, p + a + b + 1, 1, DateSep)
    /\ RunAt(s, p + a + b + 2, 4, Digit)

\* r'(\d{4})[/-](\d{1,2})[/-](\d{1,2})' matched at p; the last group is greedy
MatchYMD(s, p, b, c) ==
    /\ RunAt(s, p, 4, Digit)
    /\ RunAt(s, p + 4, 1, DateSep)
    /\ RunAt(s, p + 5, b, Digit)
    /\ RunAt(s, p + 5 + b, 1, DateSep)
    /\ RunAt(s, p + 6 + b, c, Digit)
    /\ (c = 2 \/ ~RunAt(s, p + 6 + b, 2, Digit))

\* r'(\d{1,2})\s+(\w+)\s+(\d{4})' matched at p with a day of a digits
MatchDMonthY(s, p, a) ==
    LET w1 == RunLen(s, p + a, Space)
        m  == RunLen(s, p + a + w1, WordChar)
        w2 == RunLen(s, p + a + w1 + m, Space)
    IN  /\ RunAt(s, p, a, Digit)
        /\ w1 >= 1 /\ m >= 1 /\ w2 >= 1
        /\ RunAt(s, p + a + w1 + m + w2, 4, Digit)

\* re.search: the leftmost position at which a pattern matches
Leftmost(ps) == CHOOSE p \in ps : \A q \in ps : p <= q

SearchDMY(s) == { m \in (1..Len(s)) \X {1, 2} \X {1, 2} : MatchDMY(s, m[1], m[2], m[3]) }
SearchYMD(s) == { m \in (1..Len(s)) \X {1, 2} \X {1, 2} : MatchYMD(s, m[1], m[2], m[3]) }
SearchDMonthY(s) == { m \in (1..Len(s)) \X {1, 2} : MatchDMonthY(s, m[1], m[2]) }

First(ms) == CHOOSE m \in ms : \A n \in ms : m[1] <= n[1]

\* day, month, year = match.groups() for the first pattern
GroupsDMY(s) ==
    LET m == First(SearchDMY(s))
        p == m[1]  a == m[2]  b == m[3]
    IN  << SubSeq(s, p, p + a - 1),
           SubSeq(s, p + a + 1, p + a + b),
           SubSeq(s, p + a + b + 2, p + a + b + 5) >>

\* day, month, year = match.groups() for the second pattern: the groups are
\* unpacked in the order of the pattern, so `day` is the four-digit group
GroupsYMD(s) ==
    LET m == First(SearchYMD(s))
        p == m[1]  b == m[2]  c == m[3]
    IN  << SubSeq(s, p, p + 3),
           SubSeq(s, p + 5, p + 4 + b),
           SubSeq(s, p + 6 + b, p + 5 + b + c) >>

\* day, month, year = match.groups() for the third pattern: `month` is the word
GroupsDMonthY(s) ==
    LET m  == First(SearchDMonthY(s))
        p  == m[1]  a == m[2]
        w1 == RunLen(s, p + a, Space)
        n  == RunLen(s, p + a + w1, WordChar)
        w2 == RunLen(s, p + a + w1 + n, Space)
        y  == p + a + w1 + n + w2
    IN  << SubSeq(s, p, p + a - 1),
           SubSeq(s, p + a + w1, p + a + w1 + n - 1),
           SubSeq(s, y, y + 3) >>

\* _validate_date with the final .strip() left out
FormatFirstMatchNoStrip(s) ==
    IF SearchDMY(s) # {}
    THEN LET g == GroupsDMY(s) IN FormatDate(g[1], g[2], g[3])
    ELSE IF SearchYMD(s) # {}
    THEN LET g == GroupsYMD(s) IN FormatDate(g[1], g[2], g[3])
    ELSE IF SearchDMonthY(s) # {}
    THEN LET g == GroupsDMonthY(s) IN FormatDate(g[1], g[2], g[3])
    ELSE s

\* the loop over date_patterns of _validate_date, on str(date_str)
FormatFirstMatch(s) ==
    IF SearchDMY(s) # {}
    THEN LET g == GroupsDMY(s) IN FormatDate(g[1], g[2], g[3])
    ELSE IF SearchYMD(s) # {}
    THEN LET g == GroupsYMD(s) IN FormatDate(g[1], g[2], g[3])
    ELSE IF SearchDMonthY(s) # {}
    THEN LET g == GroupsDMonthY(s) IN FormatDate(g[1], g[2], g[3])
    ELSE Strip(s)

\* GeminiProcessor._validate_date
ValidateDate(date_str) ==
    IF ~Truthy(date_str) \/ (IsStr(date_str) /\ date_str.v = W_null) THEN <<>>
    ELSE FormatFirstMatch(Str(date_str))

\* the day directive %d of strptime: 3[0-1] | [1-2]\d | 0[1-9] | [1-9] | ' '[1-9]
IsDayField(d) ==
    \/ Len(d) = 1 /\ d[1] \in (Digit \ {"0"})
    \/ /\ Len(d) = 2
       /\ \/ d[1] = "3" /\ d[2] \in {"0", "1"}
          \/ d[1] \in {"1", "2"} /\ d[2] \in Digit
          \/ d[1] \in {"0", " "} /\ d[2] \in (Digit \ {"0"})

\* the month directive %m of strptime: 1[0-2] | 0[1-9] | [1-9]
IsMonthField(m) ==
    \/ Len(m) = 1 /\ m[1] \in (Digit \ {"0"})
    \/ /\ Len(m) = 2
       /\ \/ m[1] = "1" /\ m[2] \in {"0", "1", "2"}
          \/ m[1] = "0" /\ m[2] \in (Digit \ {"0"})

IsLeap(y) == y % 4 = 0 /\ (y % 100 # 0 \/ y % 400 = 0)
DaysInMonth(m, y) ==
    IF m = 2 THEN (IF IsLeap(y) THEN 29 ELSE 28)
    ELSE IF m \in {4, 6, 9, 11} THEN 30 ELSE 31

\* the positions of '-' in s
Dashes(s) == { p \in 1..Len(s) : s[p] = "-" }

\* datetime.strptime(s, "%d-%m-%Y") returns (does not raise ValueError)
StrptimeOk(s) ==
    /\ Cardinality(Dashes(s)) = 2
    /\ LET p1 == Leftmost(Dashes(s))
           p2 == Leftmost(Dashes(s) \ {p1})
           d  == SubSeq(s, 1, p1 - 1)
           m  == SubSeq(s, p1 + 1, p2 - 1)
           y  == From(s, p2 + 1)
       IN  /\ IsDayField(d)
           /\ IsMonthField(m)
           /\ Len(y) = 4 /\ RunAt(y, 1, 4, Digit)
           /\ IntOf(y) >= 1
           /\ IntOf(LStrip(d)) <= DaysInMonth(IntOf(m), IntOf(y))

----------------------------------------------------------------------------
\* utils/data_models.py: DailyDiaryData

Range(f) == { f[k] : k \in DOMAIN f }

\* a DailyDiaryData object with the given attributes
Obj(fields) == [t |-> "DailyDiaryData", v |-> fields]

\* the free-text attributes, in the order of text_fields
TextFields == << "project", "employer", "consultant", "contractor", "location",
                 "weather", "near_miss", "obstruction", "engineers_note",
                 "prepared_by", "checked_by", "approved_by", "document_number",
                 "page_number", "revision" >>
BoolFields == { "time_morning", "time_afternoon" }
ListFields == { "activities", "equipment", "personnel", "materials", "unsafe_acts" }
AllFields == Range(TextFields) \cup { "date" } \cup BoolFields \cup ListFields

W_SunnyDry == << "S","u","n","n","y","/","D","r","y" >>

\* the default of each attribute of the dataclass
FieldDefault(f) ==
    IF f \in BoolFields THEN B(FALSE)
    ELSE IF f \in ListFields THEN L(<<>>)
    ELSE IF f = "weather" THEN S(W_SunnyDry)
    ELSE S(<<>>)

\* DailyDiaryData()
DefaultRecord == Obj([f \in AllFields |-> FieldDefault(f)])

\* DailyDiaryData.to_dict
ToDict(self) ==
    D([ project         |-> self.v.project,
        employer        |-> self.v.employer,
        consultant      |-> self.v.consultant,
        contractor      |-> self.v.contractor,
        date            |-> self.v.date,
        time_morning    |-> self.v.time_morning,
        time_afternoon  |-> self.v.time_afternoon,
        location        |-> self.v.location,
        weather         |-> self.v.weather,
        activities      |-> self.v.activities,
        equipment       |-> self.v.equipment,
        personnel       |-> self.v.personnel,
        materials       |-> self.v.materials,
        unsafe_acts     |-> self.v.unsafe_acts,
        near_miss       |-> self.v.near_miss,
        obstruction     |-> self.v.obstruction,
        engineers_note  |-> self.v.engineers_note,
        prepared_by     |-> self.v.prepared_by,
        checked_by      |-> self.v.checked_by,
        approved_by     |-> self.v.approved_by,
        document_number |-> self.v.document_number,
        page_number     |-> self.v.page_number,
        revision        |-> self.v.revision ])

\* from_dict that never reads the weather key
FromDictWeatherDefault(d) ==
    Obj([ f \in AllFields |->
            IF f = "weather" THEN FieldDefault(f) ELSE Get(d, f, FieldDefault(f)) ])

\* DailyDiaryData.from_dict, on the mapping d of a dict
FromDict(d) ==
    Obj([ project         |-> Get(d, "project", S(<<>>)),
          employer        |-> Get(d, "employer", S(<<>>)),
          consultant      |-> Get(d, "consultant", S(<<>>)),
          contractor      |-> Get(d, "contractor", S(<<>>)),
          date            |-> Get(d, "date", S(<<>>)),
          time_morning    |-> Get(d, "time_morning", B(FALSE)),
          time_afternoon  |-> Get(d, "time_afternoon", B(FALSE)),
          location        |-> Get(d, "location", S(<<>>)),
          weather         |-> Get(d, "weather", S(W_SunnyDry)),
          activities      |-> Get(d, "activities", L(<<>>)),
          equipment       |-> Get(d, "equipment", L(<<>>)),
          personnel       |-> Get(d, "personnel", L(<<>>)),
          materials       |-> Get(d, "materials", L(<<>>)),
          unsafe_acts     |-> Get(d, "unsafe_acts", L(<<>>)),
          near_miss       |-> Get(d, "near_miss", S(<<>>)),
          obstruction     |-> Get(d, "obstruction", S(<<>>)),
          engineers_note  |-> Get(d, "engineers_note", S(<<>>)),
          prepared_by     |-> Get(d, "prepared_by", S(<<>>)),
          checked_by      |-> Get(d, "checked_by", S(<<>>)),
          approved_by     |-> Get(d, "approved_by", S(<<>>)),
          document_number |-> Get(d, "document_number", S(<<>>)),
          page_number     |-> Get(d, "page_number", S(<<>>)),
          revision        |-> Get(d, "revision", S(<<>>)) ])

\* the messages of validate(); n is the 1-based activity number, 0 for a scalar rule
MsgProject == [msg |-> "Project name is required", n |-> 0]
MsgDateRequired == [msg |-> "Date is required", n |-> 0]
MsgDateFormat == [msg |-> "Date must be in DD-MM-YYYY format", n |-> 0]
MsgActivity(i) == [msg |-> "Activity description is required", n |-> i]

\* activity.get('description', '').strip() raises for this row
ActivityRaises(activity) ==
    \/ ~IsDict(activity)
    \/ ~IsStr(Get(activity.v, "description", S(<<>>)))

\* validate() raises instead of returning: an attribute is not of the type it uses
ValidateRaises(self) ==
    \/ ~IsStr(self.v.project)
    \/ ~IsStr(self.v.date)
    \/ ~IsList(self.v.activities)
    \/ \E i \in 1..Len(self.v.activities.v) : ActivityRaises(self.v.activities.v[i])

\* the loop over self.activities of validate(), from row i on
RECURSIVE ActivityErrors(_, _)
ActivityErrors(rows, i) ==
    IF i > Len(rows) THEN <<>>
    ELSE (IF Strip(Get(rows[i].v, "description", S(<<>>)).v) = <<>>
          THEN << MsgActivity(i) >> ELSE <<>>)
         \o ActivityErrors(rows, i + 1)

\* the date-format rule of validate(): strptime is tried on a non-empty date only
DateFormatErrors(date) ==
    IF date # <<>> /\ ~StrptimeOk(date) THEN << MsgDateFormat >> ELSE <<>>

\* DailyDiaryData.validate: the list it returns, or that it raised
Validate(self) ==
    IF ValidateRaises(self) THEN [raised |-> TRUE, errors |-> <<>>]
    ELSE [ raised |-> FALSE,
           errors |->
               (IF Strip(self.v.project.v) = <<>> THEN << MsgProject >> ELSE <<>>)
            \o (IF Strip(self.v.date.v) = <<>> THEN << MsgDateRequired >> ELSE <<>>)
            \o DateFormatErrors(self.v.date.v)
            \o ActivityErrors(self.v.activities.v, 1) ]

----------------------------------------------------------------------------
\* utils/gemini_processor.py: normalization

\* self._clean_text(str(value)) if value else ''
CleanValue(value) == IF Truthy(value) THEN S(CleanText(Str(value))) ELSE S(<<>>)

\* the declared sub-fields of each list section (list_fields)
RowFields(section) ==
    CASE section = "activities"  -> << "sn", "description", "location", "quantity", "unit" >>
      [] section = "equipment"   -> << "sn", "equipment", "no", "operating_hours",
                                       "idle_hours", "status", "remarks" >>
      [] section = "personnel"   -> << "sn", "personnel", "no", "hours", "role" >>
      [] section = "materials"   -> << "type", "unit", "quantity", "location" >>
      [] section = "unsafe_acts" -> << "sn", "description", "severity", "action_taken" >>

\* cleaned_item of one dict item at 1-based position i: sn is always set
CleanItem(item, i, required_fields) ==
    [ f \in Range(required_fields) \cup { "sn" } |->
        IF f = "sn" THEN Get(item, "sn", I(i)) ELSE CleanValue(Get(item, f, S(<<>>))) ]

\* re.sub(r'\s+', '', s)
RECURSIVE RemoveSpace(_)
RemoveSpace(s) ==
    IF s = <<>> THEN <<>>
    ELSE (IF s[1] \in Space THEN <<>> ELSE << s[1] >>) \o RemoveSpace(Tail(s))

\* the normalized number with .upper() left out
NormalizeNoKeepCase(equipment_no) == RemoveSpace(equipment_no)

\* re.sub(r'\s+', '', equipment_no.upper())
NormalizeNo(equipment_no) == RemoveSpace([k \in 1..Len(equipment_no) |-> UpperOf(equipment_no[k])])

\* the duplicate check applied to every section with a `no` sub-field
DedupAppliesAnyNo(required_fields) == "no" \in Range(required_fields)

\* 'equipment' in required_fields and 'no' in required_fields
DedupApplies(required_fields) ==
    "equipment" \in Range(required_fields) /\ "no" \in Range(required_fields)

\* has_content with all() in place of any()
HasContentAll(cleaned_item, required_fields) ==
    \A f \in Range(required_fields) \ { "sn" } : Truthy(Get(cleaned_item, f, S(<<>>)))

\* any(cleaned_item.get(field, '') for field in required_fields if field != 'sn')
HasContent(cleaned_item, required_fields) ==
    \E f \in Range(required_fields) \ { "sn" } : Truthy(Get(cleaned_item, f, S(<<>>)))

\* the first loop of _validate_and_clean_list, from item i on
RECURSIVE CleanLoop(_, _, _, _, _)
CleanLoop(data_list, required_fields, i, cleaned_list, seen_equipment) ==
    IF i > Len(data_list) THEN cleaned_list
    ELSE IF ~IsDict(data_list[i])
    THEN CleanLoop(data_list, required_fields, i + 1, cleaned_list, seen_equipment)
    ELSE
      LET cleaned_item  == CleanItem(data_list[i].v, i, required_fields)
          equipment_no  == Strip(Get(cleaned_item, "no", S(<<>>)).v)
          tracked       == DedupApplies(required_fields) /\ equipment_no # <<>>
          normalized_no == NormalizeNo(equipment_no)
      IN  IF tracked /\ normalized_no \in seen_equipment
          THEN CleanLoop(data_list, required_fields, i + 1, cleaned_list, seen_equipment)
          ELSE CleanLoop(data_list, required_fields, i + 1,
                         IF HasContent(cleaned_item, required_fields)
                         THEN Append(cleaned_list, cleaned_item) ELSE cleaned_list,
                         IF tracked THEN seen_equipment \cup { normalized_no }
                         ELSE seen_equipment)

\* the list returned without the renumbering loop
RenumberSkipped(cleaned_list) == [ k \in 1..Len(cleaned_list) |-> D(cleaned_list[k]) ]

\* the second loop: item['sn'] = i + 1
Renumber(cleaned_list) ==
    [ k \in 1..Len(cleaned_list) |-> D([cleaned_list[k] EXCEPT !["sn"] = I(k)]) ]

\* GeminiProcessor._validate_and_clean_list
ValidateAndCleanList(data_list, required_fields) ==
    Renumber(CleanLoop(data_list, required_fields, 1, <<>>, {}))

\* cleaned_data[list_field] for one section
CleanSection(structured_data, section) ==
    LET raw_list == Get(structured_data, section, L(<<>>))
    IN  IF IsList(raw_list)
        THEN L(ValidateAndCleanList(raw_list.v, RowFields(section)))
        ELSE L(<<>>)

\* cleaned_data of convert_to_daily_diary_data
CleanedData(structured_data) ==
    [ f \in AllFields |->
        IF f \in Range(TextFields) THEN CleanValue(Get(structured_data, f, S(<<>>)))
        ELSE IF f = "date" THEN S(ValidateDate(Get(structured_data, "date", S(<<>>))))
        ELSE IF f \in BoolFields THEN B(Truthy(Get(structured_data, f, B(FALSE))))
        ELSE CleanSection(structured_data, f) ]

\* convert_to_daily_diary_data without its except clause: the AttributeError of
\* structured_data.get on a value that is no dict leaves no record
ConvertWithoutExcept(structured_data) ==
    IF ~IsDict(structured_data) THEN None
    ELSE FromDict(CleanedData(structured_data.v))

\* GeminiProcessor.convert_to_daily_diary_data: a value without .get raises
\* inside the try, and the except returns DailyDiaryData()
ConvertToDailyDiaryData(structured_data) ==
    IF ~IsDict(structured_data) THEN DefaultRecord
    ELSE FromDict(CleanedData(structured_data.v))

----------------------------------------------------------------------------
\* utils/gemini_processor.py: parsing the model's response

\* the outcome of a partial parse: the value and the position after it, or failure
Fail == [ok |-> FALSE]
Ok(val, next) == [ok |-> TRUE, val |-> val, next |-> next]

\* d with d[key] = value
Put(d, key, value) == [ k \in DOMAIN d \cup { key } |-> IF k = key THEN value ELSE d[k] ]

\* the keys of the JSON object the prompt asks for and of the rows of its list
\* sections, as they are spelled
FieldChars ==
    [ project |-> << "p","r","o","j","e","c","t" >>,
      employer |-> << "e","m","p","l","o","y","e","r" >>,
      consultant |-> << "c","o","n","s","u","l","t","a","n","t" >>,
      contractor |-> << "c","o","n","t","r","a","c","t","o","r" >>,
      date |-> << "d","a","t","e" >>,
      time_morning |-> << "t","i","m","e","_","m","o","r","n","i","n","g" >>,
      time_afternoon |-> << "t","i","m","e","_","a","f","t","e","r","n","o","o","n" >>,
      location |-> << "l","o","c","a","t","i","o","n" >>,
      weather |-> << "w","e","a","t","h","e","r" >>,
      activities |-> << "a","c","t","i","v","i","t","i","e","s" >>,
      equipment |-> << "e","q","u","i","p","m","e","n","t" >>,
      personnel |-> << "p","e","r","s","o","n","n","e","l" >>,
      materials |-> << "m","a","t","e","r","i","a","l","s" >>,
      unsafe_acts |-> << "u","n","s","a","f","e","_","a","c","t","s" >>,
      near_miss |-> << "n","e","a","r","_","m","i","s","s" >>,
      obstruction |-> << "o","b","s","t","r","u","c","t","i","o","n" >>,
      engineers_note |-> << "e","n","g","i","n","e","e","r","s","_","n","o","t","e" >>,
      prepared_by |-> << "p","r","e","p","a","r","e","d","_","b","y" >>,
      checked_by |-> << "c","h","e","c","k","e","d","_","b","y" >>,
      approved_by |-> << "a","p","p","r","o","v","e","d","_","b","y" >>,
      document_number |-> << "d","o","c","u","m","e","n","t","_","n","u","m","b","e","r" >>,
      page_number |-> << "p","a","g","e","_","n","u","m","b","e","r" >>,
      revision |-> << "r","e","v","i","s","i","o","n" >>,
      sn |-> << "s","n" >>,
      description |-> << "d","e","s","c","r","i","p","t","i","o","n" >>,
      quantity |-> << "q","u","a","n","t","i","t","y" >>,
      unit |-> << "u","n","i","t" >>,
      no |-> << "n","o" >>,
      operating_hours |-> << "o","p","e","r","a","t","i","n","g","_","h","o","u","r","s" >>,
      idle_hours |-> << "i","d","l","e","_","h","o","u","r","s" >>,
      status |-> << "s","t","a","t","u","s" >>,
      remarks |-> << "r","e","m","a","r","k","s" >>,
      hours |-> << "h","o","u","r","s" >>,
      role |-> << "r","o","l","e" >>,
      type |-> << "t","y","p","e" >>,
      severity |-> << "s","e","v","e","r","i","t","y" >>,
      action_taken |-> << "a","c","t","i","o","n","_","t","a","k","e","n" >> ]

\* the dict key a JSON member name stands for; the code reads these keys only,
\* so every other name is kept as one key it never reads
KeyName(name) ==
    IF \E f \in DOMAIN FieldChars : FieldChars[f] = name
    THEN CHOOSE f \in DOMAIN FieldChars : FieldChars[f] = name
    ELSE "other_key"

\* the position of the first character at or after i that is no JSON whitespace
SkipWs(s, i) == i + RunLen(s, i, Space)

\* word is at position i of s, case kept
StartsAt(s, i, word) ==
    /\ i + Len(word) - 1 <= Len(s)
    /\ \A k \in 1..Len(word) : s[i + k - 1] = word[k]

\* json's string scanner from the character after the opening quote: up to the
\* next quote, control characters refused (escape sequences are not modelled: the
\* response texts hold no backslash)
ScanString(s, i) ==
    LET ends == { j \in i..Len(s) : s[j] = "\"" }
    IN  IF ends = {} THEN Fail
        ELSE LET j == CHOOSE e \in ends : \A o \in ends : e <= o
             IN  IF \E k \in i..(j - 1) : s[k] \in { "\t", "\n" } THEN Fail
                 ELSE Ok(S(SubSeq(s, i, j - 1)), j + 1)

\* json's number scanner for integers: -?(0|[1-9]\d*) (fractions and exponents
\* are not modelled: the response texts hold no '.' and no digit after an 'e')
ScanNumber(s, i) ==
    LET neg == i <= Len(s) /\ s[i] = "-"
        p   == IF neg THEN i + 1 ELSE i
        n   == IF p <= Len(s) /\ s[p] = "0" THEN 1 ELSE RunLen(s, p, Digit)
    IN  IF n = 0 THEN Fail
        ELSE Ok(I((IF neg THEN -1 ELSE 1) * IntOf(SubSeq(s, p, p + n - 1))), p + n)

RECURSIVE ScanOnce(_, _)
RECURSIVE ObjectMembers(_, _, _)
RECURSIVE ArrayItems(_, _, _)

\* json's JSONObject after '{' and whitespace, at a member: "name" : value, then
\* ',' and another member or '}'; a repeated name keeps the last value
ObjectMembers(s, i, acc) ==
    IF ~(i <= Len(s) /\ s[i] = "\"") THEN Fail
    ELSE LET name == ScanString(s, i + 1)
         IN  IF ~name.ok THEN Fail
             ELSE LET colon == SkipWs(s, name.next)
                  IN  IF ~(colon <= Len(s) /\ s[colon] = ":") THEN Fail
                      ELSE LET value == ScanOnce(s, SkipWs(s, colon + 1))
                           IN  IF ~value.ok THEN Fail
                               ELSE LET after == SkipWs(s, value.next)
                                        dict  == Put(acc, KeyName(name.val.v), value.val)
                                    IN  IF after > Len(s) THEN Fail
                                        ELSE IF s[after] = "}" THEN Ok(D(dict), after + 1)
                                        ELSE IF s[after] = ","
                                             THEN ObjectMembers(s, SkipWs(s, after + 1), dict)
                                        ELSE Fail

\* json's JSONArray after '[' and whitespace, at an item: value, then ',' and
\* another item or ']'
ArrayItems(s, i, acc) ==
    LET value == ScanOnce(s, i)
    IN  IF ~value.ok THEN Fail
        ELSE LET after == SkipWs(s, value.next)
                 items == Append(acc, value.val)
             IN  IF after > Len(s) THEN Fail
                 ELSE IF s[after] = "]" THEN Ok(L(items), after + 1)
                 ELSE IF s[after] = "," THEN ArrayItems(s, SkipWs(s, after + 1), items)
                 ELSE Fail

\* json's scan_once: the value that starts at position i
ScanOnce(s, i) ==
    IF i > Len(s) THEN Fail
    ELSE IF s[i] = "\"" THEN ScanString(s, i + 1)
    ELSE IF s[i] = "{"
         THEN LET j == SkipWs(s, i + 1)
              IN  IF j <= Len(s) /\ s[j] = "}" THEN Ok(D(<<>>), j + 1)
                  ELSE ObjectMembers(s, j, <<>>)
    ELSE IF s[i] = "["
         THEN LET j == SkipWs(s, i + 1)
              IN  IF j <= Len(s) /\ s[j] = "]" THEN Ok(L(<<>>), j + 1)
                  ELSE ArrayItems(s, j, <<>>)
    ELSE IF StartsAt(s, i, W_null) THEN Ok(None, i + 4)
    ELSE IF StartsAt(s, i, << "t","r","u","e" >>) THEN Ok(B(TRUE), i + 4)
    ELSE IF StartsAt(s, i, << "f","a","l","s","e" >>) THEN Ok(B(FALSE), i + 5)
    ELSE ScanNumber(s, i)

\* json.loads(s): one value with whitespace around it and nothing else, or
\* JSONDecodeError (ok = FALSE)
JsonLoads(s) ==
    LET value == ScanOnce(s, SkipWs(s, 1))
    IN  IF value.ok /\ SkipWs(s, value.next) = Len(s) + 1 THEN value ELSE Fail

\* the keys extract_key_value_from_text looks for, in the order of its patterns
PatternKeys == << "project", "employer", "consultant", "contractor", "date", "location", "weather" >>

\* [:\s]
ColonOrSpace == Space \cup { ":" }

\* re.search(key + r'[:\s]*([^\n]+)', text, re.IGNORECASE): the starts of group 1
\* over the positions where the pattern matches; [:\s]* takes the longest run
\* that leaves a character other than '\n' for the group
GroupStart(key, text, p) ==
    LET q    == p + Len(FieldChars[key])
        run  == RunLen(text, q, ColonOrSpace)
        cand == { k \in 0..run : q + k <= Len(text) /\ text[q + k] # "\n" }
    IN  IF ~MatchAt(FieldChars[key], text, p) \/ cand = {} THEN 0
        ELSE q + (CHOOSE k \in cand : \A o \in cand : o <= k)

\* match.group(1).strip() of the leftmost match of the pattern of `key`, or the
\* default when the pattern matches nowhere
KeyValue(key, text, default) ==
    LET at == { p \in 1..Len(text) : GroupStart(key, text, p) # 0 }
    IN  IF at = {} THEN default
        ELSE LET p == CHOOSE a \in at : \A o \in at : a <= o
                 g == GroupStart(key, text, p)
                 n == RunLen(text, g, { c \in Range(text) : c # "\n" })
             IN  S(Strip(SubSeq(text, g, g + n - 1)))

\* GeminiProcessor.extract_key_value_from_text: the 23 defaults, the seven
\* scalar keys overwritten where their pattern matches
ExtractKeyValueFromText(text) ==
    D([ f \in AllFields |->
          IF f \in Range(PatternKeys) THEN KeyValue(f, text, FieldDefault(f))
          ELSE FieldDefault(f) ])

\* GeminiProcessor.parse_gemini_response: re.search(r'\{.*\}', DOTALL) is the
\* text from the first '{' to the last '}'; when there is one, json.loads of it
\* is returned and its JSONDecodeError is caught by the outer except, which
\* returns None; without one, the whole text is parsed, then the key-value scan
ParseGeminiResponse(response_text) ==
    LET cleaned == Strip(response_text)
        opens   == { i \in 1..Len(cleaned) : cleaned[i] = "{" }
        closes  == { j \in 1..Len(cleaned) : cleaned[j] = "}" }
        first   == CHOOSE i \in opens : \A o \in opens : i <= o
        last    == CHOOSE j \in closes : \A o \in closes : o <= j
    IN  IF opens # {} /\ closes # {} /\ first < last
        THEN LET braces == JsonLoads(SubSeq(cleaned, first, last))
             IN  IF braces.ok THEN braces.val ELSE None
        ELSE LET whole == JsonLoads(cleaned)
             IN  IF whole.ok THEN whole.val ELSE ExtractKeyValueFromText(cleaned)

\* what self.model.generate_content(prompt) does: it raises, it returns nothing,
\* or it returns a response with this text
ModelRaises == [kind |-> "raises"]
NoResponse == [kind |-> "none"]
Response(text) == [kind |-> "text", text |-> text]

\* the structured data extract_site_report_data parses out of the response
\* (None when it does not get to parsing)
StructuredData(resp) ==
    IF resp.kind # "text" \/ resp.text = <<>> THEN None
    ELSE ParseGeminiResponse(resp.text)

\* extract_site_report_data without its except clause: an exception of the model
\* call leaves no return value
ExtractWithoutExcept(resp) ==
    IF resp.kind = "raises" THEN [t |-> "raised"]
    ELSE IF Truthy(StructuredData(resp))
         THEN ConvertToDailyDiaryData(StructuredData(resp))
         ELSE None

\* GeminiProcessor.extract_site_report_data after the model call: None when the
\* call raised (the except), when there is no resp or no text, and when the
\* parsed data is falsy; the converted record otherwise
ExtractSiteReportData(resp) ==
    IF resp.kind = "raises" THEN None
    ELSE IF Truthy(StructuredData(resp))
         THEN ConvertToDailyDiaryData(StructuredData(resp))
         ELSE None

----------------------------------------------------------------------------
\* utils/pdf_parser.py: text extraction

\* a library call that raised
Raises == [t |-> "raises"]

\* direct text shorter than this (stripped) sends extract_text_from_pdf to OCR
MinDirectChars == 50
\* primary OCR text shorter than this (stripped) makes _perform_enhanced_ocr try
\* the alternative configurations
MinOcrChars == 20

\* f"\n--- Page {page_num + 1} ---\n"
PageHeader(k) == << "\n" >> \o << "-","-","-"," ","P","a","g","e"," " >> \o Decimal(k) \o << " ","-","-","-" >> \o << "\n" >>
\* f"\n--- Table {table_num + 1} on Page {page_num + 1} ---\n"
TableHeader(t, k) ==
    << "\n" >> \o << "-","-","-"," ","T","a","b","l","e"," " >> \o Decimal(t) \o << " ","o","n"," ","P","a","g","e"," " >> \o Decimal(k)
        \o << " ","-","-","-" >> \o << "\n" >>
\* f"\n--- Page {page_num + 1} (OCR) ---\n"
OcrHeader(k) == << "\n" >> \o << "-","-","-"," ","P","a","g","e"," " >> \o Decimal(k) \o << " ","(","O","C","R",")"," ","-","-","-" >> \o << "\n" >>

\* " | ".join([str(cell) if cell else "" for cell in row])
RECURSIVE RowText(_)
RowText(row) ==
    IF row = <<>> THEN <<>>
    ELSE (IF Truthy(row[1]) THEN Str(row[1]) ELSE <<>>)
         \o (IF Len(row) > 1 THEN << " ", "|", " " >> \o RowText(Tail(row)) ELSE <<>>)

\* for row in table: if row: text_content += row_text + "\n"
RECURSIVE TableRows(_)
TableRows(rows) ==
    IF rows = <<>> THEN <<>>
    ELSE (IF rows[1] # <<>> THEN RowText(rows[1]) \o << "\n" >> ELSE <<>>)
         \o TableRows(Tail(rows))

\* for table_num, table in enumerate(tables): the text of tables t.. of page k
RECURSIVE TablesText(_, _, _)
TablesText(tables, t, k) ==
    IF t > Len(tables) THEN <<>>
    ELSE (IF tables[t] # <<>> THEN TableHeader(t, k) \o TableRows(tables[t]) ELSE <<>>)
         \o TablesText(tables, t + 1, k)

\* the body of the page loop of _extract_with_pdfplumber for page k: what the
\* page adds to text_content; an exception of extract_text or extract_tables
\* ends the page with what was added before it
PlumberPage(page, k) ==
    IF page.direct = Raises THEN <<>>
    ELSE (IF Truthy(page.direct) THEN PageHeader(k) \o page.direct.v \o << "\n" >> ELSE <<>>)
         \o (IF page.tables = Raises THEN <<>> ELSE TablesText(page.tables.v, 1, k))

RECURSIVE PlumberPages(_, _)
PlumberPages(pages, k) ==
    IF k > Len(pages) THEN <<>>
    ELSE PlumberPage(pages[k], k) \o PlumberPages(pages, k + 1)

\* PDFParser._extract_with_pdfplumber: "" when pdfplumber.open raises
ExtractWithPdfplumber(file) ==
    IF ~file.plumber_opens THEN <<>> ELSE PlumberPages(file.pages, 1)

\* the loop over alt_configs of _perform_enhanced_ocr from configuration i on: the
\* first alternative longer than the text so far replaces it and ends the loop;
\* an alternative that raises makes the whole function return ""
RECURSIVE TryAltConfigs(_, _, _)
TryAltConfigs(alts, i, text) ==
    IF i > Len(alts) THEN text
    ELSE IF alts[i] = Raises THEN <<>>
    ELSE IF Len(Strip(alts[i].v)) > Len(Strip(text)) THEN alts[i].v
    ELSE TryAltConfigs(alts, i + 1, text)

\* PDFParser._perform_enhanced_ocr on a page image
PerformEnhancedOcr(ocr) ==
    IF ocr.primary = Raises THEN <<>>
    ELSE IF Len(Strip(ocr.primary.v)) < MinOcrChars
         THEN TryAltConfigs(ocr.alts, 1, ocr.primary.v)
         ELSE ocr.primary.v

\* the body of the page loop of _extract_with_ocr for page k
OcrPage(page, k) ==
    IF ~page.ocr.renders THEN <<>>
    ELSE LET page_text == PerformEnhancedOcr(page.ocr)
         IN  IF Strip(page_text) # <<>> THEN OcrHeader(k) \o page_text \o << "\n" >> ELSE <<>>

RECURSIVE OcrPages(_, _)
OcrPages(pages, k) ==
    IF k > Len(pages) THEN <<>>
    ELSE OcrPage(pages[k], k) \o OcrPages(pages, k + 1)

\* PDFParser._extract_with_ocr: "" when fitz.open raises
ExtractWithOcr(file) ==
    IF ~file.fitz_opens THEN <<>> ELSE OcrPages(file.pages, 1)

\* text.split('\n')
RECURSIVE SplitLines(_)
SplitLines(text) ==
    LET breaks == { i \in 1..Len(text) : text[i] = "\n" }
    IN  IF breaks = {} THEN << text >>
        ELSE LET i == CHOOSE b \in breaks : \A o \in breaks : b <= o
             IN  << SubSeq(text, 1, i - 1) >> \o SplitLines(From(text, i + 1))

\* the concatenation of pieces[lo], ..., pieces[hi], by halves
RECURSIVE Gather(_, _, _)
Gather(pieces, lo, hi) ==
    IF lo > hi THEN <<>>
    ELSE IF lo = hi THEN pieces[lo]
    ELSE LET mid == (lo + hi) \div 2
         IN  Gather(pieces, lo, mid) \o Gather(pieces, mid + 1, hi)

\* re.sub(r'\s+', ' ', s): the first character of a run of whitespace becomes a
\* space, the others vanish
Respaced(s) ==
    Gather([ i \in 1..Len(s) |->
               IF s[i] \notin Space THEN << s[i] >>
               ELSE IF i > 1 /\ s[i - 1] \in Space THEN <<>>
               ELSE << " " >> ],
           1, Len(s))

\* ' '.join(line.split())
JoinSplit(line) == Respaced(Strip(line))

\* the loop over lines of _clean_and_preserve_text: a line with content is kept
\* with its whitespace collapsed, an empty line is kept once after a line with
\* content
RECURSIVE CleanLines(_, _)
CleanLines(lines, cleaned_lines) ==
    IF lines = <<>> THEN cleaned_lines
    ELSE LET cleaned_line == JoinSplit(lines[1])
         IN  CleanLines(Tail(lines),
                 IF cleaned_line # <<>> THEN Append(cleaned_lines, cleaned_line)
                 ELSE IF cleaned_lines # <<>> /\ cleaned_lines[Len(cleaned_lines)] # <<>>
                      THEN Append(cleaned_lines, <<>>)
                 ELSE cleaned_lines)

\* '\n'.join(lines)
JoinLines(lines) ==
    Gather([ i \in 1..Len(lines) |->
               IF i < Len(lines) THEN lines[i] \o << "\n" >> ELSE lines[i] ],
           1, Len(lines))

\* re.sub('([left])([right])', r'\1 \2', s) for disjoint classes left and right: no
\* two matches can overlap
SpaceBetween(left, right, s) ==
    Gather([ i \in 1..Len(s) |->
               IF i < Len(s) /\ s[i] \in left /\ s[i + 1] \in right
               THEN << s[i], " " >> ELSE << s[i] >> ],
           1, Len(s))

\* the scan of re.sub for a pattern that matches len + 1 characters and can match
\* where cand says: a match starts at j unless a match that started before j
\* has consumed position j
RECURSIVE MatchStarts(_, _, _)
MatchStarts(cand, len, j) ==
    /\ cand[j]
    /\ \A m \in (IF j > len THEN j - len ELSE 1)..(j - 1) : ~MatchStarts(cand, len, m)

\* the start of the match that consumed position k, in a set
Consumer(starts, len, k) ==
    { j \in (IF k > len THEN k - len ELSE 1)..k : starts[j] }

\* re.sub(word + r'([a-z])', word + r' \1', s, flags=re.IGNORECASE) over a long text
WordThenLetter(word, s) ==
    LET n == Len(s)
        cand == [ j \in 1..n |->
                    /\ MatchAt(word, s, j)
                    /\ j + Len(word) <= n
                    /\ s[j + Len(word)] \in Letter ]
        starts == [ j \in 1..n |-> MatchStarts(cand, Len(word), j) ]
    IN  Gather([ k \in 1..n |->
                   LET by == Consumer(starts, Len(word), k)
                   IN  IF by = {} THEN << s[k] >>
                       ELSE LET j == CHOOSE x \in by : TRUE
                            IN  IF k < j + Len(word) THEN << word[k - j + 1] >>
                                ELSE << " ", s[k] >> ],
               1, n)

\* re.sub(r'([a-z])' + word, r'\1 ' + word, s, flags=re.IGNORECASE) over a long text
LetterThenWord(word, s) ==
    LET n == Len(s)
        cand == [ j \in 1..n |-> s[j] \in Letter /\ MatchAt(word, s, j + 1) ]
        starts == [ j \in 1..n |-> MatchStarts(cand, Len(word), j) ]
    IN  Gather([ k \in 1..n |->
                   LET by == Consumer(starts, Len(word), k)
                   IN  IF by = {} THEN << s[k] >>
                       ELSE LET j == CHOOSE x \in by : TRUE
                            IN  IF k = j THEN << s[k], " " >>
                                ELSE << word[k - j] >> ],
               1, n)

W_operation == << "o","p","e","r","a","t","i","o","n" >>

\* common_word_patterns of _fix_common_ocr_errors, in list order
OcrWordsBefore == << W_loading, W_material, W_concrete, W_excavation, W_construction, W_equipment >>
OcrWordsAfter == << W_work, W_site, W_area, W_operation >>

\* for pattern, replacement in common_word_patterns: corrected_text = re.sub(...)
RECURSIVE ApplyOcrBefore(_, _)
ApplyOcrBefore(k, s) ==
    IF k > Len(OcrWordsBefore) THEN s
    ELSE ApplyOcrBefore(k + 1, WordThenLetter(OcrWordsBefore[k], s))
RECURSIVE ApplyOcrAfter(_, _)
ApplyOcrAfter(k, s) ==
    IF k > Len(OcrWordsAfter) THEN s
    ELSE ApplyOcrAfter(k + 1, LetterThenWord(OcrWordsAfter[k], s))

\* PDFParser._fix_common_ocr_errors (the corrections dict is never applied)
FixCommonOcrErrors(text) ==
    ApplyOcrAfter(1, ApplyOcrBefore(1,
        SpaceBetween(Digit, Letter,
            SpaceBetween(Letter, Digit,
                SpaceBetween(Lower, Upper, Respaced(text))))))

\* PDFParser._clean_and_preserve_text
CleanAndPreserveText(text) ==
    IF text = <<>> THEN <<>>
    ELSE FixCommonOcrErrors(JoinLines(CleanLines(SplitLines(text), <<>>)))

\* extract_text_from_pdf sends the file to OCR
NeedsOcr(file) == Len(Strip(ExtractWithPdfplumber(file))) < MinDirectChars

\* the text to post-process when the direct text is kept unless OCR reads more
TextContentKeepingLonger(file) ==
    IF NeedsOcr(file)
          /\ Len(Strip(ExtractWithOcr(file))) > Len(Strip(ExtractWithPdfplumber(file)))
    THEN ExtractWithOcr(file)
    ELSE ExtractWithPdfplumber(file)

\* the text extract_text_from_pdf post-processes
TextContent(file) ==
    IF NeedsOcr(file) THEN ExtractWithOcr(file) ELSE ExtractWithPdfplumber(file)

\* extract_text_from_pdf without its except clause: the exception of
\* uploaded_file.seek(0) leaves no return value
ExtractTextWithoutExcept(file) ==
    IF ~file.seeks THEN Raises
    ELSE S(CleanAndPreserveText(TextContent(file)))

\* PDFParser.extract_text_from_pdf: "" when uploaded_file.seek(0) raises
ExtractTextFromPdf(file) ==
    IF ~file.seeks THEN S(<<>>)
    ELSE S(CleanAndPreserveText(TextContent(file)))

----------------------------------------------------------------------------
\* utils/enhanced_pdf_generator.py: the Daily Diary form

\* lengths are counted in thirtieths of a millimetre: n*mm, and n/10 mm
mm(n) == 30 * n
mm10(n) == 3 * n

\* the canvas state set by c.setFont(fontname, fontsize)
Font(fontname, fontsize) == [ fontname |-> fontname, fontsize |-> fontsize ]

\* c.rect(x, y, width, height)
Rect(x, y, width, height) ==
    [ op |-> "rect", x |-> x, y |-> y, width |-> width, height |-> height ]
\* c.line(x1, y1, x2, y2)
Line(x1, y1, x2, y2) == [ op |-> "line", x1 |-> x1, y1 |-> y1, x2 |-> x2, y2 |-> y2 ]
\* c.drawImage(path, x, y, width=width, height=height, ...)
DrawImage(logo, x, y, width, height) ==
    [ op |-> "drawImage", logo |-> logo, x |-> x, y |-> y, width |-> width,
      height |-> height ]
\* c.drawString(x, y, "a text of the form")
Label(c, x, y, words) ==
    [ op |-> "label", x |-> x, y |-> y, words |-> words, fontname |-> c.fontname,
      fontsize |-> c.fontsize ]
\* c.drawString(x, y, text) for a text made from the record; `of` names the
\* attribute, or the row (counted from 0) and key, the text was made from
DrawString(c, x, y, text, of) ==
    [ op |-> "drawString", x |-> x, y |-> y, text |-> text, fontname |-> c.fontname,
      fontsize |-> c.fontsize, of |-> of ]

\* EnhancedPDFGenerator._safe_text
SafeText(value) == IF value.t = "none" THEN <<>> ELSE Str(value)

\* the characters the widths below are given for
Measured ==
    Lower \cup Upper \cup Digit
        \cup { " ", "!", ",", ".", "/", ":", ";", "[", "]", "(", ")", "-", "#", "$", "?",
               "_", "+", "<", "=", ">", "~", "&", "'", "\"", "*", "%", "@", "{", "}",
               "|", "^" }

\* the advance widths of Helvetica, in thousandths of the font size
HelveticaWidths ==
  [ ch \in Measured |->
    CASE ch \in { "i", "j", "l" } -> 222
      [] ch \in { " ", "!", ",", ".", "/", ":", ";", "I", "[", "]", "f", "t" } -> 278
      [] ch \in { "(", ")", "-", "r" } -> 333
      [] ch \in { "J", "c", "k", "s", "v", "x", "y", "z" } -> 500
      [] ch \in Digit \cup { "#", "$", "?", "_", "L", "a", "b", "d", "e", "g", "h", "n",
                            "o", "p", "q", "u" } -> 556
      [] ch \in { "+", "<", "=", ">", "~" } -> 584
      [] ch \in { "F", "T", "Z" } -> 611
      [] ch \in { "&", "A", "B", "E", "K", "P", "S", "V", "X", "Y" } -> 667
      [] ch \in { "C", "D", "H", "N", "R", "U", "w" } -> 722
      [] ch \in { "G", "O", "Q" } -> 778
      [] ch \in { "M", "m" } -> 833
      [] ch = "W" -> 944
      [] ch = "'" -> 191
      [] ch = "\"" -> 355
      [] ch = "*" -> 389
      [] ch = "%" -> 889
      [] ch = "@" -> 1015
      [] ch \in { "{", "}" } -> 334
      [] ch = "|" -> 260
      [] ch = "^" -> 469 ]

CharWidth(ch) == HelveticaWidths[ch]

\* the sum of the advance widths of text[lo..hi]
RECURSIVE SumWidths(_, _, _)
SumWidths(text, lo, hi) ==
    IF lo > hi THEN 0
    ELSE IF lo = hi THEN CharWidth(text[lo])
    ELSE LET mid == (lo + hi) \div 2
         IN  SumWidths(text, lo, mid) + SumWidths(text, mid + 1, hi)

\* c.stringWidth(text, fontname, fontsize), in thousandths of a point; every text
\* of the record is measured and drawn in Helvetica
StringWidth(text, fontname, fontsize) == SumWidths(text, 1, Len(text)) * fontsize

\* width > max_width, for a width in thousandths of a point and a max_width in
\* thirtieths of a millimetre (1 mm = 72/25.4 pt)
Exceeds(width, max_width) == width * 127 > max_width * 12000

Ellipsis == << ".", ".", "." >>

\* the while loop of _draw_text_in_cell: truncated = truncated[:-1] as long as
\* truncated + "..." is wider than max_width
RECURSIVE Truncated(_, _, _)
Truncated(c, truncated, max_width) ==
    IF /\ Len(truncated) > 0
       /\ Exceeds(StringWidth(truncated \o Ellipsis, c.fontname, c.fontsize), max_width)
    THEN Truncated(c, SubSeq(truncated, 1, Len(truncated) - 1), max_width)
    ELSE truncated

\* the while loop that measures truncated without the "..."
RECURSIVE TruncatedUnmeasured(_, _, _)
TruncatedUnmeasured(c, truncated, max_width) ==
    IF /\ Len(truncated) > 0
       /\ Exceeds(StringWidth(truncated, c.fontname, c.fontsize), max_width)
    THEN TruncatedUnmeasured(c, SubSeq(truncated, 1, Len(truncated) - 1), max_width)
    ELSE truncated

\* _draw_text_in_cell that measures the text it keeps without the "..." it then
\* appends
DrawTextInCellUnmeasuredEllipsis(c, text, x, y, max_width) ==
    IF text = <<>> THEN <<>>
    ELSE IF ~Exceeds(StringWidth(text, c.fontname, c.fontsize), max_width)
         THEN << DrawString(c, x, y, text, <<>>) >>
         ELSE LET truncated == TruncatedUnmeasured(c, text, max_width)
              IN  << DrawString(c, x, y,
                         IF truncated # <<>> THEN truncated \o Ellipsis ELSE <<>>, <<>>) >>

\* EnhancedPDFGenerator._draw_text_in_cell: what it draws
DrawTextInCell(c, text, x, y, max_width) ==
    IF text = <<>> THEN <<>>
    ELSE IF ~Exceeds(StringWidth(text, c.fontname, c.fontsize), max_width)
         THEN << DrawString(c, x, y, text, <<>>) >>
         ELSE LET truncated == Truncated(c, text, max_width)
              IN  << DrawString(c, x, y,
                         IF truncated # <<>> THEN truncated \o Ellipsis ELSE <<>>, <<>>) >>

\* the drawing of _draw_text_in_cell, marked with what the text was made from
Fitted(c, text, x, y, max_width, of) ==
    LET drawn == DrawTextInCell(c, text, x, y, max_width)
    IN  [ k \in DOMAIN drawn |-> [ drawn[k] EXCEPT !.of = of ] ]

\* getattr(data, section, []) or []
RowsOf(data, section) ==
    IF Truthy(data.v[section]) THEN data.v[section].v ELSE <<>>

\* what a section hands back: its drawing and its section_bottom
Drawn(ops, y) == [ ops |-> ops, y |-> y ]

\* _draw_header_section; logos tells whether the logo files are found and drawn
DrawHeaderSection(logos, data, start_y) ==
    LET section_height == mm(22)
        section_bottom == start_y - section_height
        bold9 == Font("Helvetica-Bold", 9)
        bold8 == Font("Helvetica-Bold", 8)
        plain7 == Font("Helvetica", 7)
        plain6 == Font("Helvetica", 6)
    IN  Drawn(
          << Rect(mm(10), section_bottom, mm(190), section_height),
             Line(mm(85), section_bottom, mm(85), start_y),
             Line(mm(160), section_bottom, mm(160), start_y) >>
          \o (IF logos
              THEN << DrawImage("nicholas", mm(12), section_bottom + mm(10), mm(30), mm(10)) >>
              ELSE << Label(bold9, mm(12), section_bottom + mm(15), "NICHOLAS"),
                      Label(bold9, mm(12), section_bottom + mm(10), "O'DWYER") >>)
          \o << Label(plain7, mm(87), section_bottom + mm(17), "Company Name"),
                Label(plain6, mm(87), section_bottom + mm(14), "Unit E4, Nutgrove Office Park,"),
                Label(plain6, mm(87), section_bottom + mm10(115), "Nutgrove Avenue, Dublin 14"),
                Label(plain6, mm(87), section_bottom + mm(9), "T +353 1 296 9000"),
                Label(plain6, mm(87), section_bottom + mm10(65), "F +353 1 296 9001"),
                Label(plain6, mm(87), section_bottom + mm(4), "E dublin@nodwyer.com"),
                Label(plain7, mm(162), section_bottom + mm(17), "in Jv with") >>
          \o (IF logos
              THEN << DrawImage("ms", mm(162), section_bottom + mm(3), mm(35), mm(12)) >>
              ELSE << Label(bold8, mm(162), section_bottom + mm(10), "MS Consultancy") >>),
          section_bottom)

\* _draw_title_section
DrawTitleSection(data, start_y) ==
    LET section_height == mm(10)
        section_bottom == start_y - section_height
        plain8 == Font("Helvetica", 8)
    IN  Drawn(
          << Rect(mm(10), section_bottom, mm(190), section_height),
             Line(mm(80), section_bottom, mm(80), start_y),
             Line(mm(135), section_bottom, mm(135), start_y),
             Label(plain8, mm(12), section_bottom + mm(4), "Title: Daily Diary"),
             Label(plain8, mm(82), section_bottom + mm(4), "Document No:"),
             Label(plain8, mm(137), section_bottom + mm(4), "Page No.   of") >>,
          section_bottom)

\* _draw_project_section
DrawProjectSection(data, start_y) ==
    LET section_height == mm(14)
        section_bottom == start_y - section_height
        col_width == mm(190) \div 4
        bold8 == Font("Helvetica-Bold", 8)
        plain7 == Font("Helvetica", 7)
    IN  Drawn(
          << Rect(mm(10), section_bottom, mm(190), section_height) >>
          \o [ i \in 1..3 |-> Line(mm(10) + i * col_width, section_bottom,
                                   mm(10) + i * col_width, start_y) ]
          \o << Label(bold8, mm(12), start_y - mm(3), "PROJECT"),
                Label(bold8, mm(12) + col_width, start_y - mm(3), "EMPLOYER"),
                Label(bold8, mm(12) + 2 * col_width, start_y - mm(3), "CONSULTANT"),
                Label(bold8, mm(12) + 3 * col_width, start_y - mm(3), "CONTRACTOR"),
                DrawString(plain7, mm(12), section_bottom + mm(7),
                           SafeText(data.v.project), << "project" >>),
                DrawString(plain7, mm(12) + col_width, section_bottom + mm(7),
                           SafeText(data.v.employer), << "employer" >>),
                DrawString(plain7, mm(12) + 2 * col_width, section_bottom + mm(7),
                           SafeText(data.v.consultant), << "consultant" >>),
                DrawString(plain7, mm(12) + 3 * col_width, section_bottom + mm(7),
                           SafeText(data.v.contractor), << "contractor" >>) >>,
          section_bottom)

\* _draw_date_weather_section; the two check marks are U+2611 and U+2610
DrawDateWeatherSection(data, start_y) ==
    LET section_height == mm(8)
        section_bottom == start_y - section_height
        plain7 == Font("Helvetica", 7)
    IN  Drawn(
          << Rect(mm(10), section_bottom, mm(190), section_height),
             Line(mm(50), section_bottom, mm(50), start_y),
             Line(mm(130), section_bottom, mm(130), start_y),
             Line(mm(160), section_bottom, mm(160), start_y),
             DrawString(plain7, mm(12), section_bottom + mm(3),
                        << "1","."," ","D","a","t","e",":"," " >> \o SafeText(data.v.date), << "date" >>),
             Label(plain7, mm(52), section_bottom + mm(3), "Weather condition: "),
             Label(plain7, mm(132), section_bottom + mm(3), "Morning"),
             Label(plain7, mm(162), section_bottom + mm(3), "Afternoon"),
             Label(plain7, mm(145), section_bottom + mm(3),
                   IF Truthy(data.v.time_morning) THEN "U+2611" ELSE "U+2610"),
             Label(plain7, mm(180), section_bottom + mm(3),
                   IF Truthy(data.v.time_afternoon) THEN "U+2611" ELSE "U+2610") >>,
          section_bottom)

\* the row loop of _draw_activities_section and of _draw_unsafe_acts_section:
\* `slots` row lines, and in slot i the sn and the fitted description of rows[i]
RECURSIVE SingleColumnRows(_, _, _, _, _, _, _, _)
SingleColumnRows(section, rows, header_y, row_height, lift, c, slots, i) ==
    IF i >= slots THEN <<>>
    ELSE LET row_y == header_y - (i + 1) * row_height
         IN  << Line(mm(10), row_y, mm(200), row_y) >>
             \o (IF i < Len(rows)
                 THEN LET row == rows[i + 1].v
                      IN  << DrawString(c, mm(12), row_y + lift,
                                        Str(Get(row, "sn", I(i + 1))), << section, i, "sn" >>) >>
                          \o Fitted(c, SafeText(Get(row, "description", S(<<>>))),
                                    mm(22), row_y + lift, mm(175),
                                    << section, i, "description" >>)
                 ELSE <<>>)
             \o SingleColumnRows(section, rows, header_y, row_height, lift, c, slots, i + 1)

\* range(5) in _draw_activities_section
ActivitySlots == 5
\* range(2) in _draw_unsafe_acts_section
UnsafeActSlots == 2
\* range(5) in _draw_equipment_section, right_idx = i + 5
EquipmentSlots == 5
\* range(14) in _draw_personnel_section, right_idx = i + 14
PersonnelSlots == 14

\* an activities section that grows with its rows: 3.8 mm for every row beyond
\* the first
DrawActivitiesSectionGrowing(data, start_y) ==
    LET rows == RowsOf(data, "activities")
        section_height == mm(25) + (IF Len(rows) > 1 THEN (Len(rows) - 1) * mm10(38) ELSE 0)
        section_bottom == start_y - section_height
        header_y == start_y - mm(6)
    IN  Drawn(
          << Rect(mm(10), section_bottom, mm(190), section_height),
             Label(Font("Helvetica", 7), mm(12), start_y - mm(3),
                   "3. Major Activities on progress, Chain age and Location"),
             Line(mm(10), header_y, mm(200), header_y) >>
          \o SingleColumnRows("activities", rows, header_y, mm10(38), mm(1),
                              Font("Helvetica", 6), ActivitySlots, 0),
          section_bottom)

\* _draw_activities_section
DrawActivitiesSection(data, start_y) ==
    LET section_height == mm(25)
        section_bottom == start_y - section_height
        header_y == start_y - mm(6)
    IN  Drawn(
          << Rect(mm(10), section_bottom, mm(190), section_height),
             Label(Font("Helvetica", 7), mm(12), start_y - mm(3),
                   "3. Major Activities on progress, Chain age and Location"),
             Line(mm(10), header_y, mm(200), header_y),
             Line(mm(20), section_bottom, mm(20), header_y),
             Label(Font("Helvetica-Bold", 6), mm(12), header_y + mm(1), "sn"),
             Label(Font("Helvetica-Bold", 6), mm(22), header_y + mm(1),
                   "Description/Topic - Contractor's work") >>
          \o SingleColumnRows("activities", RowsOf(data, "activities"), header_y, mm10(38),
                              mm(1), Font("Helvetica", 6), ActivitySlots, 0),
          section_bottom)

\* one sub-column entry of _draw_equipment_section and _draw_personnel_section:
\* the sn, the fitted name and the no of rows[idx], drawn at the three columns xs
SubColumnEntry(section, rows, idx, xs, row_y) ==
    IF idx < Len(rows)
    THEN LET row == rows[idx + 1].v
             c == Font("Helvetica", 6)
         IN  << DrawString(c, xs[1], row_y + mm10(5), Str(Get(row, "sn", I(idx + 1))),
                           << section, idx, "sn" >>) >>
             \o Fitted(c, SafeText(Get(row, section, S(<<>>))), xs[2],
                       row_y + mm10(5), mm(45), << section, idx, section >>)
             \o << DrawString(c, xs[3], row_y + mm10(5),
                              SafeText(Get(row, "no", S(<<>>))), << section, idx, "no" >>) >>
    ELSE <<>>

\* the row loop with right_idx = i + slots - 1: the right sub-column starts with
\* the last row of the left one
RECURSIVE TwoColumnRowsOverlapping(_, _, _, _, _, _)
TwoColumnRowsOverlapping(section, rows, header_y, row_height, slots, i) ==
    IF i >= slots THEN <<>>
    ELSE LET row_y == header_y - (i + 1) * row_height
             right_idx == i + slots - 1
         IN  << Line(mm(10), row_y, mm(200), row_y) >>
             \o SubColumnEntry(section, rows, i, << mm(12), mm(22), mm(72) >>, row_y)
             \o SubColumnEntry(section, rows, right_idx, << mm(107), mm(132), mm(157) >>, row_y)
             \o TwoColumnRowsOverlapping(section, rows, header_y, row_height, slots, i + 1)

\* the row loop with row_y = header_y - (i + 2) * row_height: every row line one
\* row lower
RECURSIVE TwoColumnRowsLowered(_, _, _, _, _, _)
TwoColumnRowsLowered(section, rows, header_y, row_height, slots, i) ==
    IF i >= slots THEN <<>>
    ELSE LET row_y == header_y - (i + 2) * row_height
             right_idx == i + slots
         IN  << Line(mm(10), row_y, mm(200), row_y) >>
             \o SubColumnEntry(section, rows, i, << mm(12), mm(22), mm(72) >>, row_y)
             \o SubColumnEntry(section, rows, right_idx, << mm(107), mm(132), mm(157) >>, row_y)
             \o TwoColumnRowsLowered(section, rows, header_y, row_height, slots, i + 1)

\* the row loop of _draw_equipment_section and of _draw_personnel_section: in slot
\* i the left sub-column holds rows[i], the right one rows[i + slots]
RECURSIVE TwoColumnRows(_, _, _, _, _, _)
TwoColumnRows(section, rows, header_y, row_height, slots, i) ==
    IF i >= slots THEN <<>>
    ELSE LET row_y == header_y - (i + 1) * row_height
             right_idx == i + slots
         IN  << Line(mm(10), row_y, mm(200), row_y) >>
             \o SubColumnEntry(section, rows, i, << mm(12), mm(22), mm(72) >>, row_y)
             \o SubColumnEntry(section, rows, right_idx, << mm(107), mm(132), mm(157) >>, row_y)
             \o TwoColumnRows(section, rows, header_y, row_height, slots, i + 1)

\* the title, header line, column dividers and column headers that
\* _draw_equipment_section and _draw_personnel_section share
TwoColumnHead(title, name, no, start_y, section_bottom, section_height) ==
    LET header_y == start_y - mm(6)
        col_positions == << mm(20), mm(45), mm(70), mm(105), mm(130), mm(155) >>
        bold6 == Font("Helvetica-Bold", 6)
    IN  << Rect(mm(10), section_bottom, mm(190), section_height),
           Label(Font("Helvetica", 7), mm(12), start_y - mm(3), title),
           Line(mm(10), header_y, mm(200), header_y) >>
        \o [ k \in 1..Len(col_positions) |->
               Line(col_positions[k], section_bottom, col_positions[k], header_y) ]
        \o << Label(bold6, mm(12), header_y + mm(1), "sn"),
              Label(bold6, mm(22), header_y + mm(1), name),
              Label(bold6, mm(72), header_y + mm(1), no),
              Label(bold6, mm(107), header_y + mm(1), "sn"),
              Label(bold6, mm(132), header_y + mm(1), name),
              Label(bold6, mm(157), header_y + mm(1), no) >>

\* _draw_equipment_section
DrawEquipmentSection(data, start_y) ==
    LET section_height == mm(22)
        section_bottom == start_y - section_height
    IN  Drawn(
          TwoColumnHead("4. Contractor's Equipment (dumper truck, excavator, water pump etc.)",
                        "Equipment", "NO", start_y, section_bottom, section_height)
          \o TwoColumnRows("equipment", RowsOf(data, "equipment"), start_y - mm(6),
                           mm10(32), EquipmentSlots, 0),
          section_bottom)

\* _draw_personnel_section
DrawPersonnelSection(data, start_y) ==
    LET section_height == mm(55)
        section_bottom == start_y - section_height
    IN  Drawn(
          TwoColumnHead("5. Contractor's Personnel (Foreman, laborer, driver etc.)",
                        "Personnel", "No.", start_y, section_bottom, section_height)
          \o TwoColumnRows("personnel", RowsOf(data, "personnel"), start_y - mm(6),
                           mm10(35), PersonnelSlots, 0),
          section_bottom)

\* _draw_unsafe_acts_section
DrawUnsafeActsSection(data, start_y) ==
    LET section_height == mm(18)
        section_bottom == start_y - section_height
        header_y == start_y - mm(7)
    IN  Drawn(
          << Rect(mm(10), section_bottom, mm(190), section_height),
             Label(Font("Helvetica", 8), mm(12), start_y - mm(3),
                   "6. Unsafe Acts / Conditions Observed"),
             Line(mm(10), header_y, mm(200), header_y),
             Line(mm(20), section_bottom, mm(20), header_y),
             Label(Font("Helvetica-Bold", 7), mm(12), header_y + mm(1), "sn"),
             Label(Font("Helvetica-Bold", 7), mm(22), header_y + mm(1),
                   "Description of Unsafe Acts") >>
          \o SingleColumnRows("unsafe_acts", RowsOf(data, "unsafe_acts"), header_y, mm10(55),
                              mm(2), Font("Helvetica", 7), UnsafeActSlots, 0),
          section_bottom)

\* one block of _draw_additional_sections: border, title and the fitted narrative
NarrativeBlock(data, field, title, top, height, title_lift, text_lift) ==
    << Rect(mm(10), top - height, mm(190), height),
       Label(Font("Helvetica", 8), mm(12), top - height + title_lift, title) >>
    \o Fitted(Font("Helvetica", 7), SafeText(data.v[field]), mm(12),
              top - height + text_lift, mm(185), << field >>)

\* _draw_additional_sections
DrawAdditionalSections(data, start_y) ==
    LET near_miss_bottom == start_y - mm(12)
        obstruction_bottom == near_miss_bottom - mm(12)
        engineers_bottom == obstruction_bottom - mm(20)
    IN  Drawn(
          NarrativeBlock(data, "near_miss", "7. Near Miss/Accidents/Incidents:",
                         start_y, mm(12), mm(8), mm(4))
          \o NarrativeBlock(data, "obstruction", "8. Obstruction/Action Plans:",
                            near_miss_bottom, mm(12), mm(8), mm(4))
          \o NarrativeBlock(data, "engineers_note", "9. Engineer's Note:",
                            obstruction_bottom, mm(20), mm(16), mm(10)),
          engineers_bottom)

\* _draw_signatures_section
DrawSignaturesSection(data, start_y) ==
    LET section_height == mm(30)
        section_bottom == start_y - section_height
        col_width == mm(190) \div 3
        bold8 == Font("Helvetica-Bold", 8)
        plain7 == Font("Helvetica", 7)
        columns == << mm(12), mm(12) + col_width, mm(12) + 2 * col_width >>
        signers == << "prepared_by", "checked_by", "approved_by" >>
    IN  Drawn(
          << Line(mm(10) + col_width, section_bottom, mm(10) + col_width, start_y),
             Line(mm(10) + 2 * col_width, section_bottom, mm(10) + 2 * col_width, start_y),
             Label(bold8, columns[1], start_y - mm(5), "Prepared by"),
             Label(bold8, columns[2], start_y - mm(5), "Checked by"),
             Label(bold8, columns[3], start_y - mm(5), "Approved by"),
             Label(plain7, columns[1], start_y - mm(9), "Construction Staff"),
             Label(plain7, columns[2], start_y - mm(9), "Consultant Supervision Staff"),
             Label(plain7, columns[3], start_y - mm(9), "Consultant Supervision Staff") >>
          \o [ k \in 1..3 |->
                 DrawString(plain7, columns[k], start_y - mm(15),
                            << "N","a","m","e",":"," " >> \o SafeText(data.v[signers[k]]), << signers[k] >>) ]
          \o [ k \in 1..3 |->
                 Label(plain7, columns[k], start_y - mm(20), "Sign: ________________") ],
          section_bottom)

\* the drawing calls of generate_daily_diary_pdf, in order
Sections ==
    << "header", "title", "project", "date_weather", "activities", "equipment",
       "personnel", "unsafe_acts", "additional", "signatures" >>

DrawSection(section, logos, data, start_y) ==
    CASE section = "header"       -> DrawHeaderSection(logos, data, start_y)
      [] section = "title"        -> DrawTitleSection(data, start_y)
      [] section = "project"      -> DrawProjectSection(data, start_y)
      [] section = "date_weather" -> DrawDateWeatherSection(data, start_y)
      [] section = "activities"   -> DrawActivitiesSection(data, start_y)
      [] section = "equipment"    -> DrawEquipmentSection(data, start_y)
      [] section = "personnel"    -> DrawPersonnelSection(data, start_y)
      [] section = "unsafe_acts"  -> DrawUnsafeActsSection(data, start_y)
      [] section = "additional"   -> DrawAdditionalSections(data, start_y)
      [] section = "signatures"   -> DrawSignaturesSection(data, start_y)

\* the try block of generate_daily_diary_pdf from its k-th drawing call on, with
\* ops drawn so far and the cursor at current_y; lib.fails names the call of the
\* canvas library that raises, if one does
RECURSIVE DrawFrom(_, _, _, _, _)
DrawFrom(k, lib, data, current_y, ops) ==
    IF k > Len(Sections)
    THEN [ ops |-> ops, failed |-> IF lib.fails = "save" THEN "save" ELSE "none",
           cursor |-> << current_y >> ]
    ELSE IF lib.fails = Sections[k]
    THEN [ ops |-> ops, failed |-> Sections[k], cursor |-> << current_y >> ]
    ELSE LET drawn == DrawSection(Sections[k], lib.logos, data, current_y)
             rest  == DrawFrom(k + 1, lib, data, drawn.y, ops \o drawn.ops)
         IN  [ rest EXCEPT !.cursor = << current_y >> \o @ ]

\* self.page_height and self.margin of __init__ (A4 is 210 mm by 297 mm)
PageHeight == mm(297)
Margin == mm(10)

\* return pdf_bytes: the document holding what was drawn
PdfBytes(ops) == [ t |-> "bytes", v |-> ops ]
\* raise Exception(message)
Raised(context, cause) == [ t |-> "raised", context |-> context, cause |-> cause ]

\* generate_daily_diary_pdf without its except clause: the library's error leaves
\* as it is
GenerateWithoutExcept(lib, data) ==
    LET try == DrawFrom(1, lib, data, PageHeight - Margin, <<>>)
    IN  IF try.failed = "none" THEN PdfBytes(try.ops)
        ELSE Raised("", try.failed)

\* generate_daily_diary_pdf that returns what its canvas holds after a failure
GenerateReturningPartial(lib, data) ==
    PdfBytes(DrawFrom(1, lib, data, PageHeight - Margin, <<>>).ops)

\* EnhancedPDFGenerator.generate_daily_diary_pdf
GenerateDailyDiaryPdf(lib, data) ==
    LET try == DrawFrom(1, lib, data, PageHeight - Margin, <<>>)
    IN  IF try.failed = "none" THEN PdfBytes(try.ops)
        ELSE Raised("Error generating PDF: ", try.failed)

----------------------------------------------------------------------------
\* Inputs

\* the concatenation of a sequence of strings
RECURSIVE Flatten(_)
Flatten(parts) == IF Len(parts) = 0 THEN <<>> ELSE Head(parts) \o Flatten(Tail(parts))

\* the pieces raw free text is made of: whitespace, a quote, a lower-case and an
\* upper-case letter, two words of the repair table, and the literal null
TextTokens == { << " " >>, << "\"" >>, << "x" >>, << "B" >>, W_work, W_loading, W_null }

\* the pieces raw dates are made of
DateParts == { << "3" >>, << "0","7" >>, << "3","1" >>, << "2","0","2","4" >>, << "J","u","l" >> }
DateSepPairs == { << "-", "-" >>, << "/", "/" >>, << " ", " " >>, << "/", "-" >> }
DatePads == { <<>>, << " " >> }
\* raw dates that are not made of three parts
OtherDates == { <<>>, << " " >>, W_null, << "c","r","e","a","t","e","d"," ","l","a","s","t"," ","T","u","e","s","d","a","y" >>, << "3","/","7","/","2","0","2","4" >>,
                << "3"," ","J","u","l","y"," ","2","0","2","4" >>, << "1","2","3","/","7","/","2","0","2","4" >>, << "2","0","2","4","-","0","7","-","0","3" >> }

\* what the extraction model answers when every scalar is present
BaseRaw == [ project |-> S(<< "P" >>), date |-> S(<< "0","3","-","0","7","-","2","0","2","4" >>),
             weather |-> S(<< "R","a","i","n","y" >>), time_morning |-> B(TRUE) ]

\* raw rows of each list section; some carry an sn (a gap, a string), some hold
\* None or a number, some are not dicts
ActivityItems ==
    { D([description |-> d, location |-> l]) :
        d \in { S(<<>>), S(<< "d","i","g" >>) }, l \in { S(<<>>), S(<< "A" >>) } }
    \cup { D([sn |-> I(7), description |-> S(<< "d","i","g" >>)]),
           D([sn |-> S(<< "x" >>), description |-> S(<< "d","i","g" >>)]),
           D([description |-> None, unit |-> S(<< " " >>)]),
           S(<< "j","u","n","k" >>) }
EquipmentItems ==
    { D([equipment |-> e, no |-> n]) :
        e \in { S(<<>>), S(<< "c","r","a","n","e" >>) }, n \in { S(<<>>), S(<< "A","B","1","2" >>) } }
    \cup { D([equipment |-> S(<< "c","r","a","n","e" >>), no |-> S(<< "A","B","-","1","2" >>)]),
           D([equipment |-> S(<< "c","r","a","n","e" >>), no |-> S(<< "a","b"," ","1","2" >>)]),
           D([sn |-> I(7), equipment |-> S(<< "p","u","m","p" >>)]) }
PersonnelItems ==
    { D([personnel |-> q, no |-> n]) :
        q \in { S(<<>>), S(<< "m","a","s","o","n" >>) }, n \in { S(<<>>), S(<< "4" >>) } }
    \cup { D([sn |-> I(7), role |-> S(<< " " >>), no |-> I(0)]),
           D([sn |-> I(7), hours |-> I(8)]) }
UnsafeActItems ==
    { D([description |-> d, severity |-> v]) :
        d \in { S(<<>>), S(<< "t","r","i","p" >>) }, v \in { S(<<>>), S(<< "h","i","g","h" >>) } }
    \cup { D([sn |-> I(7), description |-> S(<< " " >>)]) }
MaterialItems ==
    { D([type |-> ty, quantity |-> q]) :
        ty \in { S(<<>>), S(<< "s","a","n","d" >>) }, q \in { S(<<>>), I(5) } }
    \cup { D([sn |-> I(7), type |-> S(<< "s","a","n","d" >>)]) }

SectionItems(section) ==
    CASE section = "activities"  -> ActivityItems
      [] section = "equipment"   -> EquipmentItems
      [] section = "personnel"   -> PersonnelItems
      [] section = "materials"   -> MaterialItems
      [] section = "unsafe_acts" -> UnsafeActItems

\* the pieces the response text of the extraction model is made of: the JSON
\* object asked for, lone braces, numbers, a JSON list, prose, prose that names a
\* field, and a line break
ResponseChunks ==
    { << "{","\"","p","r","o","j","e","c","t","\"",":"," ","\"","P","\"","}" >>,
      << "{" >>, << "}" >>, << "5" >>, << "0" >>, << "[","5","]" >>,
      << "S","o","r","r","y" >>, << "p","r","o","j","e","c","t",":"," ","Q" >>, << "\n" >> }

\* structured data that is no dict of well-typed values: a list field that is no
\* list, a date that is a number, a None scalar, and answers that are no dict
OddRaw ==
    { D(Put(BaseRaw, "activities", S(<< "n","o","n","e" >>))), D(Put(BaseRaw, "date", I(20240703))),
      D(Put(BaseRaw, "weather", None)), L(<< S(<< "x" >>) >>), I(5) }

\* records handed to validate() and to_dict() as they are: what the review layer
\* can leave in a record
RecordProjects == { <<>>, << " " >>, << "P" >> }
RecordDates ==
    { <<>>, << " " >>, << "0","3","-","0","7","-","2","0","2","4" >>, << "3","-","7","-","2","0","2","4" >>, << " ","3","-","0","7","-","2","0","2","4" >>, << "0","3","/","0","7","/","2","0","2","4" >>,
      << "2","0","2","4","-","0","7","-","0","3" >>, << "0","3","-","0","7","-","2","4" >>, << "3","1","-","0","4","-","2","0","2","4" >>, << "2","9","-","0","2","-","2","0","2","3" >>, << "2","9","-","0","2","-","2","0","2","4" >>,
      << "0","0","-","0","1","-","2","0","2","4" >>, << "0","1","-","1","3","-","2","0","2","4" >>, << "0","3","-","0","7","-","2","0","2","4"," " >> }
RecordActivities ==
    { D([sn |-> I(1), description |-> d, location |-> S(<<>>)]) :
        d \in { S(<<>>), S(<< " " >>), S(<< "d","i","g" >>) } }
    \cup { D([sn |-> I(1), location |-> S(<< "A" >>)]) }

\* activities rows as the data editor of the review page hands them back: a
\* filled row, a row whose description cell was left empty (None), a row whose
\* description is a number, and, for a record built by from_dict from an
\* unnormalized dict, a row that is no dict
EditedActivities ==
    { D([sn |-> I(1), description |-> S(<< "d","i","g" >>), location |-> S(<<>>)]),
      D([sn |-> I(2), description |-> None, location |-> S(<< "A" >>)]),
      D([sn |-> I(2), description |-> I(5), location |-> S(<<>>)]),
      S(<< "j","u","n","k" >>) }

\* the record with this project, date and activities, Cloudy weather and
\* afternoon work
RecordOf(p, d, a) ==
    Obj([ f \in AllFields |->
            IF f = "project" THEN S(p)
            ELSE IF f = "date" THEN S(d)
            ELSE IF f = "activities" THEN L(a)
            ELSE IF f = "weather" THEN S(<< "C","l","o","u","d","y" >>)
            ELSE IF f = "time_afternoon" THEN B(TRUE)
            ELSE FieldDefault(f) ])

\* text of a page with a text layer: longer than the OCR threshold, with merged
\* words, repeated spaces and blank lines
DirectLong ==
    << "T","r","e","n","c","h"," ","e","x","c","a","v","a","t","i","o","n","w","o","r","k"," ","a","t"," ","s","i","t","e","A" >> \o << "\n", "\n", "\n" >>
        \o << "l","o","a","d","i","n","g","m","a","t","e","r","i","a","l"," "," ","1","2","m"," "," ","K","m","5" >>
\* what OCR reads from a clear scan
OcrLong == << "C","o","n","c","r","e","t","e"," ","p","o","u","r","i","n","g"," ","f","o","r"," ","m","a","n","h","o","l","e"," ","M","H","1","2"," ","d","o","n","e" >>
\* the four alternative OCR configurations finding nothing
NoAlts == << S(<<>>), S(<<>>), S(<<>>), S(<<>>) >>

\* a page with a text layer
TextPage ==
    [ direct |-> S(DirectLong), tables |-> L(<<>>),
      ocr |-> [ renders |-> TRUE, primary |-> S(OcrLong), alts |-> NoAlts ] ]
\* a page with little text and a table; tesseract fails on it
ShortTablePage ==
    [ direct |-> S(<< "D","i","g" >>),
      tables |-> L(<< <<>>, << << S(<< "a" >>), None >>, <<>> >> >>),
      ocr |-> [ renders |-> TRUE, primary |-> Raises, alts |-> NoAlts ] ]
\* a scanned page: no text layer, a clear image
ScannedPage ==
    [ direct |-> None, tables |-> L(<<>>),
      ocr |-> [ renders |-> TRUE, primary |-> S(OcrLong), alts |-> NoAlts ] ]
\* a faint scan: the primary configuration reads two characters, the second and
\* third alternatives read more
FaintScanPage ==
    [ direct |-> None, tables |-> L(<<>>),
      ocr |-> [ renders |-> TRUE, primary |-> S(<< "M","H" >>),
                alts |-> << S(<<>>), S(<< "M","H","1","2"," ","c","a","s","t" >>),
                            S(<< "M","H","1","2"," ","c","a","s","t"," ","i","n"," ","s","i","t","u" >>), S(<<>>) >> ] ]
\* an empty page
BlankPage ==
    [ direct |-> S(<<>>), tables |-> L(<<>>),
      ocr |-> [ renders |-> TRUE, primary |-> S(<< " ", "\n" >>), alts |-> NoAlts ] ]
\* a damaged page: the text layer cannot be read and the page cannot be rendered
BrokenPage ==
    [ direct |-> Raises, tables |-> Raises,
      ocr |-> [ renders |-> FALSE, primary |-> Raises, alts |-> NoAlts ] ]
\* a page whose tables cannot be read and on which an alternative OCR
\* configuration fails
HalfBrokenPage ==
    [ direct |-> S(<< "D","i","g"," ","a"," ","p","i","t" >>), tables |-> Raises,
      ocr |-> [ renders |-> TRUE, primary |-> S(<< "D","i","g" >>),
                alts |-> << S(<<>>), Raises, S(<< "D","i","g"," ","i","t" >>), S(<<>>) >> ] ]

PdfPages ==
    { TextPage, ShortTablePage, ScannedPage, FaintScanPage, BlankPage, BrokenPage,
      HalfBrokenPage }

\* the uploaded files: whether seek(0), pdfplumber.open and fitz.open succeed, and
\* the pages
UploadedFiles ==
    { [ seeks |-> s, plumber_opens |-> p, fitz_opens |-> f, pages |-> pages ] :
        s \in BOOLEAN, p \in BOOLEAN, f \in BOOLEAN,
        pages \in UNION { [1..n -> PdfPages] : n \in 1..MaxPages } }

\* the sections the form has a table for
TableSections == { "activities", "equipment", "personnel", "unsafe_acts" }

\* the number of slots the form has for a section
SlotsOf(section) ==
    CASE section = "activities"  -> ActivitySlots
      [] section = "equipment"   -> 2 * EquipmentSlots
      [] section = "personnel"   -> 2 * PersonnelSlots
      [] section = "unsafe_acts" -> UnsafeActSlots

\* n times the character ch
Repeated(ch, n) == [ k \in 1..n |-> ch ]

\* the texts of a record to render: short ones, None, or by turns a run of wide
\* letters, a run of narrow letters and a short text
TextKinds == { "short", "none", "wide" }
TextOf(kind, k, run) ==
    CASE kind = "short" -> S(<< "D","i","g" >>)
      [] kind = "none"  -> None
      [] kind = "wide"  -> CASE k % 3 = 1 -> S(Repeated("W", run))
                             [] k % 3 = 2 -> S(Repeated("i", run))
                             [] k % 3 = 0 -> S(<< "D","i","g" >>)


\* the k-th row of a section of a record to render; every third row of the wide
\* kind has no sn
RenderRow(section, kind, k) ==
    LET keyed == IF section \in { "activities", "unsafe_acts" }
                 THEN ("description" :> TextOf(kind, k, LongRun))
                 ELSE (section :> TextOf(kind, k, ShortRun)) @@ ("no" :> S(<< "2" >>))
    IN  D(IF kind = "wide" /\ k % 3 = 0 THEN keyed ELSE ("sn" :> I(k)) @@ keyed)

\* a record to render: n rows in one section, one row in the other sections
RenderRecord(section, n, kind) ==
    Obj([ f \in AllFields |->
            IF f \in TableSections
            THEN L([ k \in 1..(IF f = section THEN n ELSE 1) |-> RenderRow(f, kind, k) ])
            ELSE IF f \in { "project", "near_miss", "prepared_by" } THEN TextOf(kind, 1, LongRun)
            ELSE IF f \in { "obstruction", "employer" } THEN TextOf(kind, 2, LongRun)
            ELSE IF f \in { "engineers_note", "checked_by" } THEN TextOf(kind, 3, LongRun)
            ELSE IF f = "date" THEN S(<< "0","3","-","0","7","-","2","0","2","4" >>)
            ELSE IF f = "time_morning" THEN B(TRUE)
            ELSE FieldDefault(f) ])

\* the records rendered: each section from empty to `over` rows more than its
\* slots
RenderRecordsUpTo(over) ==
    UNION { { RenderRecord(section, n, kind) :
                n \in 0..(SlotsOf(section) + over), kind \in TextKinds } :
            section \in TableSections }
RenderRecords == RenderRecordsUpTo(MaxOver)
\* the records rendered by a canvas library that fails
FewRowRecords ==
    { RenderRecord(section, n, kind) :
        section \in TableSections, n \in 0..MaxRows, kind \in TextKinds }

\* the canvas library: whether the logo files are found and drawn, and which of
\* its calls raises, if one does
WorkingLibraries == { [ logos |-> l, fails |-> "none" ] : l \in BOOLEAN }
FailingLibraries ==
    { [ logos |-> FALSE, fails |-> f ] : f \in Range(Sections) \cup { "save" } }

----------------------------------------------------------------------------
\* app.py: the pages of the application

\* the keys of st.session_state the pages read and write; a key is absent until
\* a page assigns it
NoSession == [ k \in {} |-> None ]

\* initialize_session_state
InitializeSessionState(ss) ==
    LET first == IF "extracted_data" \in DOMAIN ss THEN ss
                 ELSE Put(ss, "extracted_data", None)
    IN  IF "ready_for_pdf" \in DOMAIN first THEN first
        ELSE Put(first, "ready_for_pdf", B(FALSE))

\* the defaults upload_and_process_page gives its own two keys
UploadDefaults(ss) ==
    LET first == IF "uploaded_file" \in DOMAIN ss THEN ss
                 ELSE Put(ss, "uploaded_file", None)
    IN  IF "upload_success" \in DOMAIN first THEN first
        ELSE Put(first, "upload_success", B(FALSE))

\* an uploaded file as the uploader widget returns it: equal to itself across
\* reruns, different from another upload
UploadedFile(id) == [ t |-> "file", id |-> id ]

\* bool(x) of what the pages test: an object without __bool__ or __len__ (an
\* uploaded file, a DailyDiaryData) is true
PageTruthy(x) == IF x.t \in { "file", "DailyDiaryData" } THEN TRUE ELSE Truthy(x)

\* a newly selected file that keeps the data of the previous one
HandleFileSelectionKeepingData(ss, uploaded) ==
    IF PageTruthy(uploaded) /\ uploaded # ss.uploaded_file
    THEN [ ss EXCEPT !.upload_success = B(FALSE), !.uploaded_file = uploaded ]
    ELSE ss

\* "Handle file selection and persistence": a file other than the remembered one
\* resets the flags and the data
HandleFileSelection(ss, uploaded) ==
    IF PageTruthy(uploaded) /\ uploaded # ss.uploaded_file
    THEN [ ss EXCEPT !.upload_success = B(FALSE), !.uploaded_file = uploaded,
                     !.extracted_data = None, !.ready_for_pdf = B(FALSE) ]
    ELSE ss

\* the body of "Process PDF": processed is what parsing and extraction gave, a
\* record, None, or an exception (reported, nothing stored)
ProcessPdf(ss, processed) ==
    IF processed = Raises THEN [ ss |-> ss, did |-> "process_failed" ]
    ELSE IF PageTruthy(processed)
    THEN [ ss  |-> [ ss EXCEPT !.extracted_data = processed,
                               !.upload_success = B(TRUE),
                               !.ready_for_pdf = B(FALSE) ],
           did |-> "processed" ]
    ELSE [ ss |-> ss, did |-> "nothing_extracted" ]

\* upload_and_process_page: one run of the page with the uploader holding
\* uploaded and the Process button pressed or not; did tells a first selection
\* from one that replaced a file whose data was in the session
UploadAndProcessPage(ss, uploaded, pressed, processed) ==
    LET selected == HandleFileSelection(UploadDefaults(ss), uploaded)
    IN  IF PageTruthy(selected.uploaded_file) /\ pressed
           /\ ~selected.upload_success.v
        THEN ProcessPdf(selected, processed)
        ELSE [ ss  |-> selected,
               did |-> IF selected.uploaded_file = UploadDefaults(ss).uploaded_file
                       THEN "shown"
                       ELSE IF PageTruthy(ss.extracted_data) THEN "replaced"
                       ELSE "selected" ]

\* the metadata review_and_edit_page fills in when a field is empty
DefaultProject ==
    << "C","o","n","s","t","r","u","c","t","i","o","n"," ","o","f"," ","T",
       "r","u","n","k"," ","L","i","n","e","s"," ","f","o","r"," ","K","o",
       "t","e","b","e"," ","a","n","d"," ","K","i","t","i","m","e"," ","S",
       "u","b","-","C","a","t","c","h","m","e","n","t"," ","o","f"," ","E",
       "a","s","t","e","r","n"," ","S","e","w","e","r"," ","L","i","n","e",
       " ","P","r","o","j","e","c","t" >>

DefaultEmployer ==
    << "A","A","W","S","A","-","W","I","S","I","D","D",","," ","T","H","E",
       " ","W","O","R","L","D"," ","B","A","N","K" >>

DefaultConsultant ==
    << "N","I","C","H","O","L","A","S"," ","O","'","D","W","Y","E","R"," ",
       "L","T","D","."," ","I","n"," ","J","v","."," ","w","i","t","h"," ",
       "M","S"," ","C","O","N","S","U","L","T","A","N","C","Y" >>

DefaultContractor ==
    << "A","S","E","R"," ","C","O","N","S","T","R","U","C","T","I","O","N",
       " ","P","L","C" >>

\* "Set default metadata if empty"
WithDefaultMetadata(data) ==
    LET fill(f, text) == IF Truthy(data.v[f]) THEN data.v[f] ELSE S(text)
    IN  Obj([ data.v EXCEPT !.project = fill("project", DefaultProject),
                            !.employer = fill("employer", DefaultEmployer),
                            !.consultant = fill("consultant", DefaultConsultant),
                            !.contractor = fill("contractor", DefaultContractor) ])

\* the options of the weather selectbox
WeatherOptions ==
    { W_SunnyDry, << "C","l","o","u","d","y" >>, << "R","a","i","n","y" >>,
      << "S","t","o","r","m","y" >> }

\* [...].index(data.weather) raises ValueError for a weather that is no option
WeatherIndexRaises(data) ==
    Truthy(data.v.weather) /\ data.v.weather.v \notin WeatherOptions

\* pd.DataFrame(rows).to_dict(orient='records'): every row gets every column,
\* a cell the row did not have is NaN (no string, as None is)
ToRecords(rows) ==
    LET columns == UNION { DOMAIN rows[i].v : i \in DOMAIN rows }
    IN  [ i \in DOMAIN rows |->
            D([ c \in columns |-> IF c \in DOMAIN rows[i].v THEN rows[i].v[c] ELSE None ]) ]

\* the rows the activities editor returns: as shown, or with the description
\* cell of the first row emptied or typed
EditedRows(rows, edit) ==
    LET shown == ToRecords(rows)
    IN  CASE edit = "same"    -> shown
          [] edit = "emptied" -> [ shown EXCEPT ![1] = D(Put(@.v, "description", None)) ]
          [] edit = "typed"   -> [ shown EXCEPT ![1] =
                                     D(Put(@.v, "description", S(<< "d","i","g" >>))) ]

\* the widgets of the form down to the activities table, assigned into data as
\* they return: the submitted values on a submit, the shown ones otherwise.
\* With an empty table the page calls st.button inside st.form, which the
\* library refuses (StreamlitAPIException), so the run ends there.
FormAssigned(data, form) ==
    LET named == IF form.submitted
                 THEN Obj([ data.v EXCEPT !.project = S(form.project),
                                          !.date = S(form.date) ])
                 ELSE data
    IN  IF WeatherIndexRaises(named) THEN [ data |-> named, raised |-> TRUE ]
        ELSE IF Truthy(named.v.activities)
        THEN [ data   |-> Obj([ named.v EXCEPT !.activities =
                                   L(EditedRows(@.v, IF form.submitted THEN form.activities
                                                     ELSE "same")) ]),
               raised |-> FALSE ]
        ELSE [ data |-> named, raised |-> TRUE ]

\* review_and_edit_page: data is the object session_state holds, so what the
\* page assigns into it is in session_state whether or not the run completes
ReviewAndEditPage(ss, form) ==
    LET data == ss.extracted_data
    IN  IF ~PageTruthy(data) THEN [ ss |-> ss, did |-> "no_data" ]
        ELSE LET assigned == FormAssigned(WithDefaultMetadata(data), form)
                 held     == [ ss EXCEPT !.extracted_data = assigned.data ]
             IN  IF assigned.raised THEN [ ss |-> held, did |-> "form_raised" ]
                 ELSE IF ~form.submitted THEN [ ss |-> held, did |-> "reviewed" ]
                 ELSE LET validation == Validate(assigned.data)
                      IN  IF validation.raised
                          THEN [ ss |-> held, did |-> "validate_raised" ]
                          ELSE IF validation.errors # <<>>
                          THEN [ ss |-> held, did |-> "rejected" ]
                          ELSE [ ss  |-> [ held EXCEPT !.ready_for_pdf = B(TRUE) ],
                                 did |-> "saved" ]

\* the public methods of EnhancedPDFGenerator
GeneratorMethods == { "generate_daily_diary_pdf" }

\* gen.<method>(data): AttributeError for a name the generator does not have
CallGenerator(method, lib, data) ==
    IF method \notin GeneratorMethods THEN Raised("AttributeError: ", method)
    ELSE GenerateDailyDiaryPdf(lib, data)

\* the try of generate_pdf_page after the call: bytes are stored in
\* session_state.generated_pdf, an exception is reported and nothing is stored
StoreGenerated(ss, out) ==
    IF out.t = "bytes"
    THEN [ ss |-> Put(ss, "generated_pdf", out), did |-> "generated", output |-> out ]
    ELSE [ ss |-> ss, did |-> "generation_failed", output |-> out ]

\* generate_pdf_page: one run of the page with the Generate button pressed or not
GeneratePdfPage(ss, pressed, lib) ==
    IF ~PageTruthy(Get(ss, "ready_for_pdf", B(FALSE)))
    THEN [ ss |-> ss, did |-> "not_ready", output |-> None ]
    ELSE IF ~pressed THEN [ ss |-> ss, did |-> "ready", output |-> None ]
    ELSE StoreGenerated(ss, CallGenerator("generate", lib, ss.extracted_data))

\* what parsing and extraction can hand the upload page: a clean record, one
\* whose date is in another format, one whose weather is no option, one without
\* activities, the empty record of a failed conversion
ProcessedRecords ==
    { ConvertToDailyDiaryData(r) :
        r \in { D(Put(BaseRaw, "activities",
                      L(<< D([description |-> S(<< "d","i","g" >>), location |-> S(<< "A" >>)]) >>))),
                D(Put(Put(BaseRaw, "date", S(<< "2","0","2","4","-","0","7","-","0","3" >>)),
                      "activities",
                      L(<< D([description |-> S(<< "d","i","g" >>), location |-> S(<< "A" >>)]) >>))),
                D(Put(BaseRaw, "weather", S(<< "W","i","n","d","y" >>))),
                D(BaseRaw),
                I(5) } }

\* what the user types into the project and date inputs on a submit
FormProjects == { <<>>, << "P" >> }
FormDates ==
    { <<>>, << "0","3","-","0","7","-","2","0","2","4" >>,
      << "0","3","/","0","7","/","2","0","2","4" >> }

\* one run of the form: a rerun without a submit, or a submit with the inputs
\* and the table as the user left them
Forms ==
    { [ submitted |-> FALSE, project |-> <<>>, date |-> <<>>, activities |-> "same" ] }
    \cup { [ submitted |-> TRUE, project |-> p, date |-> d, activities |-> e ] :
             p \in FormProjects, d \in FormDates, e \in { "same", "emptied", "typed" } }

----------------------------------------------------------------------------
\* The specification

\* no call has returned anything yet
Idle ==
    /\ again = None /\ restored = None /\ result = None
    /\ response = None /\ calls = 0
    /\ raw_text = None /\ ocr_called = FALSE /\ text_content = None
    /\ canvas = <<>> /\ output = None /\ cursor = <<>>
    /\ session_state = None

\* raw structured data arrives: the base answer with the project varied
InitText ==
    \E n \in 0..MaxTokens : \E parts \in [1..n -> TextTokens] :
        raw = D(Put(BaseRaw, "project", S(Flatten(parts))))

\* raw structured data arrives: the base answer with the date varied
InitDate ==
    \/ \E pre \in DatePads, a \in DateParts, sp \in DateSepPairs,
          b \in DateParts, c \in DateParts, post \in DatePads :
           raw = D(Put(BaseRaw, "date",
                       S(pre \o a \o << sp[1] >> \o b \o << sp[2] >> \o c \o post)))
    \/ \E d \in OtherDates : raw = D(Put(BaseRaw, "date", S(d)))

\* raw structured data arrives: the base answer with one list section
InitSection ==
    \E section \in ListFields : \E n \in 0..MaxRows :
        \E rows \in [1..n -> SectionItems(section)] :
            raw = D(Put(BaseRaw, section, L(rows)))

\* either raw structured data arrives for normalization, or a record is in hand
Init ==
    \/ /\ InitText \/ InitDate \/ InitSection \/ raw \in OddRaw
       /\ record = None
       /\ uploaded_file = None
       /\ reportlab = None
       /\ pc = "raw"
       /\ Idle
    \/ /\ raw = None
       /\ \/ \E p \in RecordProjects, d \in RecordDates : \E n \in 0..MaxRows :
                 \E a \in [1..n -> RecordActivities] : record = RecordOf(p, d, a)
          \/ \E n \in 1..MaxRows : \E a \in [1..n -> EditedActivities] :
                 record = RecordOf(<< "P" >>, << "0","3","-","0","7","-","2","0","2","4" >>, a)
       /\ uploaded_file = None
       /\ reportlab = None
       /\ pc = "record"
       /\ Idle
    \/ /\ raw = None
       /\ record = None
       /\ uploaded_file = None
       /\ reportlab = None
       /\ pc = "extract"
       /\ Idle
    \/ /\ raw = None
       /\ record = None
       /\ uploaded_file \in UploadedFiles
       /\ reportlab = None
       /\ pc = "uploaded"
       /\ Idle
    \/ /\ raw = None
       /\ \/ record \in RenderRecords /\ reportlab \in WorkingLibraries
          \/ record \in FewRowRecords /\ reportlab \in FailingLibraries
       /\ uploaded_file = None
       /\ pc = "ready"
       /\ Idle

\* response = self.model.generate_content(prompt): the one model call of
\* extract_site_report_data
GenerateContent ==
    /\ pc = "extract"
    /\ \/ response' \in { ModelRaises, NoResponse }
       \/ \E n \in 0..MaxChunks : \E parts \in [1..n -> ResponseChunks] :
              response' = Response(Flatten(parts))
    /\ calls' = calls + 1
    /\ pc' = "generated"
    /\ UNCHANGED << raw, record, again, restored, result, pdfvars, rendervars, appvars >>

\* the rest of extract_site_report_data: parse, convert, return
ExtractSiteReport ==
    /\ pc = "generated"
    /\ raw' = StructuredData(response)
    /\ record' = ExtractSiteReportData(response)
    /\ pc' = "extracted"
    /\ UNCHANGED << again, restored, result, response, calls, pdfvars, rendervars, appvars >>

\* raw_text = parser.extract_text_from_pdf(uploaded_file)
ExtractText ==
    /\ pc = "uploaded"
    /\ raw_text' = ExtractTextFromPdf(uploaded_file)
    /\ ocr_called' = (uploaded_file.seeks /\ NeedsOcr(uploaded_file))
    /\ text_content' = IF uploaded_file.seeks THEN S(TextContent(uploaded_file)) ELSE None
    /\ pc' = "parsed"
    /\ UNCHANGED << raw, record, again, restored, result, response, calls, uploaded_file,
                    rendervars, appvars >>

\* pdf_bytes = generator.generate_daily_diary_pdf(record)
GeneratePdf ==
    /\ pc = "ready"
    /\ canvas' = DrawFrom(1, reportlab, record, PageHeight - Margin, <<>>).ops
    /\ cursor' = DrawFrom(1, reportlab, record, PageHeight - Margin, <<>>).cursor
    /\ output' = GenerateDailyDiaryPdf(reportlab, record)
    /\ pc' = "rendered"
    /\ UNCHANGED << raw, record, again, restored, result, response, calls, pdfvars,
                    reportlab, appvars >>

\* record = processor.convert_to_daily_diary_data(structured_data)
Convert ==
    /\ pc = "raw"
    /\ record' = ConvertToDailyDiaryData(raw)
    /\ pc' = "normalized"
    /\ UNCHANGED << raw, again, restored, result, response, calls, pdfvars, rendervars, appvars >>

\* convert_to_daily_diary_data(record.to_dict())
Renormalize ==
    /\ pc = "normalized"
    /\ again' = ConvertToDailyDiaryData(ToDict(record))
    /\ pc' = "renormalized"
    /\ UNCHANGED << raw, record, restored, result, response, calls, pdfvars, rendervars, appvars >>

\* errors = record.validate()
RunValidate ==
    /\ pc \in { "normalized", "record" }
    /\ result' = Validate(record)
    /\ pc' = "validated"
    /\ UNCHANGED << raw, record, again, restored, response, calls, pdfvars, rendervars, appvars >>

\* DailyDiaryData.from_dict(record.to_dict())
RoundTrip ==
    /\ pc \in { "normalized", "record" }
    /\ restored' = FromDict(ToDict(record).v)
    /\ pc' = "restored"
    /\ UNCHANGED << raw, record, again, result, response, calls, pdfvars, rendervars, appvars >>

Next ==
    \/ Convert \/ Renormalize \/ RunValidate \/ RoundTrip
    \/ GenerateContent \/ ExtractSiteReport
    \/ ExtractText
    \/ GeneratePdf

Spec == Init /\ [][Next]_vars

----------------------------------------------------------------------------
\* The application: a session of page runs

\* the files the user can upload
Files == { UploadedFile(1), UploadedFile(2) }

\* a new session: nothing in session_state, no pipeline call made
AppInit ==
    /\ raw = None /\ record = None
    /\ again = None /\ restored = None /\ result = None
    /\ response = None /\ calls = 0
    /\ uploaded_file = None
    /\ raw_text = None /\ ocr_called = FALSE /\ text_content = None
    /\ canvas = <<>> /\ output = None /\ cursor = <<>>
    /\ reportlab = [ logos |-> FALSE, fails |-> "none" ]
    /\ session_state = NoSession
    /\ pc = "app"

\* main() with "Upload & Process" selected. The Process button exists only once
\* a file is remembered, and a press is a rerun of its own: the uploader then
\* holds the remembered file, or nothing after a visit to another page.
PageUpload ==
    /\ session_state # None
    /\ \E uploaded \in Files \cup { None }, pressed \in BOOLEAN,
          processed \in { Raises, None } \cup ProcessedRecords :
          /\ pressed => /\ PageTruthy(Get(session_state, "uploaded_file", None))
                        /\ uploaded \in { None, session_state.uploaded_file }
          /\ LET run == UploadAndProcessPage(InitializeSessionState(session_state),
                                             uploaded, pressed, processed)
             IN  session_state' = run.ss /\ pc' = run.did
    /\ UNCHANGED << raw, record, again, restored, result, response, calls, pdfvars,
                    rendervars >>

\* main() with "Review & Edit" selected
PageReview ==
    /\ session_state # None
    /\ \E form \in Forms :
          LET run == ReviewAndEditPage(InitializeSessionState(session_state), form)
          IN  session_state' = run.ss /\ pc' = run.did
    /\ UNCHANGED << raw, record, again, restored, result, response, calls, pdfvars,
                    rendervars >>

\* main() with "Generate PDF" selected
PageGenerate ==
    /\ session_state # None
    /\ \E pressed \in BOOLEAN :
          \E run \in { GeneratePdfPage(InitializeSessionState(session_state), pressed,
                                       reportlab) } :
              session_state' = run.ss /\ pc' = run.did /\ output' = run.output
    /\ UNCHANGED << raw, record, again, restored, result, response, calls, pdfvars,
                    canvas, cursor, reportlab >>

\* main() with "History" selected
PageHistory ==
    /\ session_state # None
    /\ session_state' = InitializeSessionState(session_state)
    /\ pc' = "history"
    /\ UNCHANGED << raw, record, again, restored, result, response, calls, pdfvars,
                    rendervars >>

AppNext == PageUpload \/ PageReview \/ PageGenerate \/ PageHistory

AppSpec == AppInit /\ [][AppNext]_vars

----------------------------------------------------------------------------
\* Vocabulary of the properties

\* normalization has just returned record for raw (no later call changes record)
Normalized == raw.t # "none" /\ pc = "normalized"

\* validate() has run on the record normalization returned for raw
NormalizedValidated == raw.t # "none" /\ pc = "validated"

\* x and y are the same Python value
Is(x, y) == x.t = y.t /\ x = y

\* the raw list of a section as normalization reads it (empty when it is no list)
RawRows(section) ==
    IF IsDict(raw) /\ section \in DOMAIN raw.v /\ IsList(raw.v[section])
    THEN raw.v[section].v ELSE <<>>

\* the rows of a section of the normalized record
OutRows(section) == record.v[section].v

\* the sub-fields of a section other than sn
ContentFields(section) == Range(RowFields(section)) \ { "sn" }

\* the text a raw item holds in field f once cleaned
Cleaned(item, f) == CleanValue(Get(item.v, f, S(<<>>))).v

\* row and item agree on every sub-field other than sn
SameContent(row, item, section) ==
    \A f \in ContentFields(section) : IsStr(row.v[f]) /\ row.v[f].v = Cleaned(item, f)

\* the raw item has some non-empty sub-field other than sn once cleaned
NonEmptyItem(item, section) ==
    IsDict(item) /\ \E f \in ContentFields(section) : Cleaned(item, f) # <<>>

\* the members of a set of positions, in increasing order
RECURSIVE Ascending(_)
Ascending(ps) ==
    IF ps = {} THEN <<>>
    ELSE LET least == CHOOSE p \in ps : \A q \in ps : p <= q
         IN  << least >> \o Ascending(ps \ { least })

\* the raw positions of a section
RawPositions(section) == 1..Len(RawRows(section))

\* the rows of the section are exactly the raw items at positions idx, in that order
RowsAre(section, idx) ==
    /\ Len(OutRows(section)) = Len(idx)
    /\ \A k \in 1..Len(idx) :
           SameContent(OutRows(section)[k], RawRows(section)[idx[k]], section)

\* the rows of the section carry sn = 1, 2, ..., N
SnContiguous(section) ==
    \A k \in 1..Len(OutRows(section)) :
        LET sn == OutRows(section)[k].v.sn IN sn.t = "int" /\ sn.v = k

SnSections == { "activities", "equipment", "personnel", "unsafe_acts" }

----------------------------------------------------------------------------
\* C1: after normalization the rows of activities, equipment, personnel and
\* unsafe_acts carry sn = 1..N in list order whatever sn the raw rows carried,
\* and the surviving rows keep their relative input order (they are the cleaned
\* raw dict items at a set of positions taken in increasing order).
C1_SnContiguousInOrder ==
    Normalized =>
        \A section \in SnSections :
            /\ SnContiguous(section)
            /\ \E ps \in SUBSET RawPositions(section) :
                   /\ \A i \in ps : IsDict(RawRows(section)[i])
                   /\ RowsAre(section, Ascending(ps))

\* a row was dropped ahead of rows whose raw sn are a gap and a string
C1_Witness ==
    /\ Normalized
    /\ Len(RawRows("activities")) = 3
    /\ ~NonEmptyItem(RawRows("activities")[1], "activities")
    /\ IsDict(RawRows("activities")[2]) /\ IsDict(RawRows("activities")[3])
    /\ Is(Get(RawRows("activities")[2].v, "sn", None), I(7))
    /\ Is(Get(RawRows("activities")[3].v, "sn", None), S(<< "x" >>))
    /\ Len(OutRows("activities")) = 2

----------------------------------------------------------------------------
\* the raw equipment list is two dict rows with these `no` values
TwoEquipment(no1, no2) ==
    LET rows == RawRows("equipment")
    IN  /\ Len(rows) = 2
        /\ IsDict(rows[1]) /\ IsDict(rows[2])
        /\ Is(Get(rows[1].v, "no", None), S(no1))
        /\ Is(Get(rows[2].v, "no", None), S(no2))

\* exactly the first of the two raw equipment rows is retained
FirstRetained ==
    /\ Len(OutRows("equipment")) = 1
    /\ SameContent(OutRows("equipment")[1], RawRows("equipment")[1], "equipment")

\* the `no` of row k of the normalized equipment list, whitespace-stripped and uppercased
OutNo(k) == NormalizeNo(OutRows("equipment")[k].v.no.v)

\* C2, as claimed: of two equipment rows with no = "AB-12" and no = "ab 12" exactly
\* the first is retained, and the normalized `no` values of the final equipment
\* list are pairwise distinct.
C2_Original ==
    Normalized =>
        /\ TwoEquipment(<< "A","B","-","1","2" >>, << "a","b"," ","1","2" >>) => FirstRetained
        /\ \A j, k \in 1..Len(OutRows("equipment")) : j # k => OutNo(j) # OutNo(k)

\* C2, amended: of two equipment rows with no = "AB12" and no = "ab 12" (equal once
\* whitespace is removed and letters are upper-cased) exactly the first is
\* retained, and the rows of the final equipment list that have a non-empty `no`
\* have pairwise distinct normalized `no` values.
C2_DedupExample ==
    Normalized =>
        /\ TwoEquipment(<< "A","B","1","2" >>, << "a","b"," ","1","2" >>) => FirstRetained
        /\ \A j, k \in 1..Len(OutRows("equipment")) :
               j # k /\ OutNo(j) # <<>> => OutNo(j) # OutNo(k)

\* the two rows that differ in case and whitespace went through normalization
C2_Witness ==
    /\ Normalized
    /\ TwoEquipment(<< "A","B","1","2" >>, << "a","b"," ","1","2" >>)
    /\ Len(OutRows("equipment")) = 1

----------------------------------------------------------------------------
\* the raw equipment item at i has a non-empty cleaned `no` that no earlier raw
\* item has, whitespace and case apart
FirstOfItsNo(i) ==
    LET rows == RawRows("equipment")
    IN  /\ IsDict(rows[i])
        /\ Cleaned(rows[i], "no") # <<>>
        /\ \A j \in 1..(i - 1) :
               IsDict(rows[j]) =>
                   NormalizeNo(Cleaned(rows[j], "no")) # NormalizeNo(Cleaned(rows[i], "no"))

\* the raw equipment item at i survives: it has content and is no later duplicate
EquipmentKept(i) ==
    LET rows == RawRows("equipment")
    IN  /\ NonEmptyItem(rows[i], "equipment")
        /\ Cleaned(rows[i], "no") # <<>> => FirstOfItsNo(i)

\* the raw item at i of a section has content
ContentAt(section, i) == NonEmptyItem(RawRows(section)[i], section)

\* C3: among equipment rows whose cleaned `no` is non-empty and equal after
\* removing whitespace and upper-casing, exactly the first occurrence is kept and
\* the later ones are dropped before sn is re-sequenced; rows of personnel,
\* activities, materials and unsafe_acts are never dropped as duplicates (every
\* raw row with content is in the output).
C3_EquipmentDedupOnly ==
    Normalized =>
        /\ RowsAre("equipment",
                   Ascending({ i \in RawPositions("equipment") : EquipmentKept(i) }))
        /\ SnContiguous("equipment")
        /\ \A section \in ListFields \ { "equipment" } :
               RowsAre(section,
                       Ascending({ i \in RawPositions(section) : ContentAt(section, i) }))

\* three equipment rows, the third a duplicate of the first, and two personnel
\* rows with the same `no`, went through normalization
C3_Witness ==
    /\ Normalized
    /\ \/ /\ Len(RawRows("equipment")) = 3
          /\ FirstOfItsNo(1) /\ FirstOfItsNo(2) /\ ~FirstOfItsNo(3)
          /\ IsDict(RawRows("equipment")[3])
          /\ Cleaned(RawRows("equipment")[3], "no") # <<>>
          /\ Len(OutRows("equipment")) = 2
       \/ /\ Len(RawRows("personnel")) = 2
          /\ NonEmptyItem(RawRows("personnel")[1], "personnel")
          /\ IsDict(RawRows("personnel")[2])
          /\ Cleaned(RawRows("personnel")[1], "no") # <<>>
          /\ Cleaned(RawRows("personnel")[2], "no") = Cleaned(RawRows("personnel")[1], "no")
          /\ Len(OutRows("personnel")) = 2

----------------------------------------------------------------------------
\* C4, as claimed: a raw activities or unsafe_acts row whose description is empty
\* after cleaning is absent from the normalized output whatever its other fields
\* hold, so no row of these sections has an empty description.
C4_Original ==
    Normalized =>
        \A section \in { "activities", "unsafe_acts" } :
            \A k \in 1..Len(OutRows(section)) :
                OutRows(section)[k].v.description.v # <<>>

----------------------------------------------------------------------------
\* C5: a personnel or equipment row whose non-sn fields are all empty after
\* cleaning is absent from the normalized output, and every personnel row with
\* at least one non-empty non-sn field is kept.
C5_EmptyRowsDropped ==
    Normalized =>
        /\ \A section \in { "personnel", "equipment" } :
               \A k \in 1..Len(OutRows(section)) :
                   \E f \in ContentFields(section) : OutRows(section)[k].v[f].v # <<>>
        /\ RowsAre("personnel",
                   Ascending({ i \in RawPositions("personnel") : ContentAt("personnel", i) }))

\* an all-empty personnel row was dropped and a row with only a `no` was kept
C5_Witness ==
    /\ Normalized
    /\ Len(RawRows("personnel")) = 2
    /\ IsDict(RawRows("personnel")[1])
    /\ ~NonEmptyItem(RawRows("personnel")[1], "personnel")
    /\ Cleaned(RawRows("personnel")[2], "personnel") = <<>>
    /\ Cleaned(RawRows("personnel")[2], "no") = << "4" >>
    /\ Len(OutRows("personnel")) = 1

----------------------------------------------------------------------------
\* the raw date, when the raw structured data holds a string there
RawDateIsStr == IsDict(raw) /\ "date" \in DOMAIN raw.v /\ IsStr(raw.v.date)
RawDate == raw.v.date.v

\* one of the three date patterns matches somewhere in s
MatchesDatePattern(s) == SearchDMY(s) # {} \/ SearchYMD(s) # {} \/ SearchDMonthY(s) # {}

\* two digits, '-', two digits, '-', four digits
CanonicalShape(s) ==
    /\ Len(s) = 10
    /\ \A k \in { 1, 2, 4, 5, 7, 8, 9, 10 } : s[k] \in Digit
    /\ s[3] = "-" /\ s[6] = "-"

\* C6, as claimed: a raw date that matches one of the three patterns is normalized
\* to the exact shape DD-MM-YYYY.
C6_Original ==
    Normalized /\ RawDateIsStr =>
        (MatchesDatePattern(RawDate) => CanonicalShape(record.v.date.v))

----------------------------------------------------------------------------
\* validate() returned and reported this message
Reported(m) == pc = "validated" /\ ~result.raised /\ \E k \in 1..Len(result.errors) : result.errors[k] = m

\* C7, as claimed: a non-empty raw date that matches none of the three patterns
\* is normalized to itself with leading and trailing whitespace removed, and
\* validate() on the record reports a date-format error.
C7_Original ==
    NormalizedValidated /\ RawDateIsStr =>
        (RawDate # <<>> /\ ~MatchesDatePattern(RawDate) =>
            /\ record.v.date.v = Strip(RawDate)
            /\ Reported(MsgDateFormat))

\* C7, amended: a raw date with a non-whitespace character, other than the literal
\* "null", that matches none of the three patterns is normalized to itself with
\* leading and trailing whitespace removed, and validate() reports a date-format
\* error; the literal "null" and an all-whitespace date are normalized to the
\* empty string, for which validate() reports "Date is required" and no
\* date-format error.
C7_UnmatchedDate ==
    NormalizedValidated /\ RawDateIsStr =>
        (RawDate # <<>> /\ ~MatchesDatePattern(RawDate) =>
            IF RawDate = W_null \/ Strip(RawDate) = <<>>
            THEN /\ record.v.date.v = <<>>
                 /\ Reported(MsgDateRequired)
                 /\ ~Reported(MsgDateFormat)
            ELSE /\ record.v.date.v = Strip(RawDate)
                 /\ Reported(MsgDateFormat))

\* "created last Tuesday" went through normalization and validation
C7_Witness ==
    /\ NormalizedValidated /\ RawDateIsStr
    /\ RawDate = << "c","r","e","a","t","e","d"," ","l","a","s","t"," ","T","u","e","s","d","a","y" >>
    /\ record.v.date.v = RawDate
    /\ Reported(MsgDateFormat)

----------------------------------------------------------------------------
\* C8, as claimed: normalizing the to_dict() of a normalized record returns a
\* record equal to it.
C8_Original == pc = "renormalized" => again = record

----------------------------------------------------------------------------
\* C9: from_dict(to_dict(r)) is a record with the same 23 fields as r, each
\* holding the value it holds in r.
C9_RoundTrip ==
    pc = "restored" =>
        /\ Cardinality(AllFields) = 23
        /\ restored.t = record.t
        /\ DOMAIN restored.v = AllFields
        /\ \A f \in AllFields : restored.v[f] = record.v[f]

\* a record that differs from the defaults in a scalar, a boolean and a list
\* section went through to_dict and from_dict
C9_Witness ==
    /\ pc = "restored"
    /\ record.v.weather.v # W_SunnyDry
    /\ record.v.time_afternoon.v
    /\ Len(record.v.activities.v) = 2
    /\ record.v.project.v # <<>>

----------------------------------------------------------------------------
\* s is exactly DD-MM-YYYY and names a day of the calendar
StrictDate(s) ==
    /\ CanonicalShape(s)
    /\ IntOf(SubSeq(s, 7, 10)) >= 1
    /\ IntOf(SubSeq(s, 4, 5)) \in 1..12
    /\ IntOf(SubSeq(s, 1, 2)) \in 1..DaysInMonth(IntOf(SubSeq(s, 4, 5)), IntOf(SubSeq(s, 7, 10)))

\* the activities rows of record with a blank description
BlankActivities ==
    { k \in 1..Len(record.v.activities.v) :
        Strip(Get(record.v.activities.v[k].v, "description", S(<<>>)).v) = <<>> }

\* C10, as claimed: validate() returns the empty list exactly when project is
\* non-blank, date is exactly DD-MM-YYYY naming a real calendar date, and every
\* activities row has a non-blank description; otherwise every violated rule has
\* its message in the list, and a blank project yields the message about the
\* project.
C10_Original ==
    pc = "validated" /\ ~result.raised =>
        LET projectOk == Strip(record.v.project.v) # <<>>
            dateOk    == StrictDate(record.v.date.v)
        IN  /\ result.errors = <<>> <=> (projectOk /\ dateOk /\ BlankActivities = {})
            /\ ~projectOk => Reported(MsgProject)
            /\ ~dateOk => Reported(MsgDateRequired) \/ Reported(MsgDateFormat)
            /\ \A k \in BlankActivities : Reported(MsgActivity(k))

----------------------------------------------------------------------------
\* C11, as claimed: validate() never raises, whatever record it is handed: every
\* call returns a list of messages, also for activities rows that hold a None or
\* non-string description or are not dictionaries.
C11_Original == pc = "validated" => ~result.raised

----------------------------------------------------------------------------
\* the value is a structurally valid record: the 23 fields, strings in the text
\* fields and the date, booleans in the two periods, and in every list section a
\* list of dict rows
WellFormed(r) ==
    /\ r.t = "DailyDiaryData"
    /\ DOMAIN r.v = AllFields
    /\ \A f \in Range(TextFields) \cup { "date" } : IsStr(r.v[f])
    /\ \A f \in BoolFields : r.v[f].t = "bool"
    /\ \A f \in ListFields :
           /\ IsList(r.v[f])
           /\ \A k \in 1..Len(r.v[f].v) : IsDict(r.v[f].v[k])

\* C12: for every raw value (a non-dictionary, a list field that is no list, list
\* items that are no dictionaries included) normalization returns a structurally
\* valid DailyDiaryData record, and for a raw value that is no dictionary, where
\* the conversion fails as a whole, it returns the all-default record.
C12_ConvertTotal ==
    Normalized =>
        /\ WellFormed(record)
        /\ ~IsDict(raw) => record = DefaultRecord

\* a raw answer that is a list, not a dictionary, went through normalization
C12_Witness ==
    /\ Normalized
    /\ IsList(raw)
    /\ record = DefaultRecord

----------------------------------------------------------------------------
\* extract_site_report_data has returned
Extracted == pc = "extracted"

\* the model call raised, returned no response, or returned a response without text
NoText ==
    \/ response.kind \in { "raises", "none" }
    \/ response.kind = "text" /\ response.text = <<>>

\* C13: extract_site_report_data never raises: it returns None or a record; it
\* returns None when the model call raises, returns no response or returns empty
\* text; and an invocation calls the extraction model exactly once.
C13_ExtractNeverRaises ==
    /\ pc \in { "generated", "extracted" } => calls = 1
    /\ Extracted =>
           /\ record.t \in { "none", "DailyDiaryData" }
           /\ NoText => record.t = "none"

\* the model call raised and extract_site_report_data returned None
C13_Witness ==
    /\ Extracted
    /\ response.kind = "raises"
    /\ record.t = "none"
    /\ calls = 1

----------------------------------------------------------------------------
\* the response text holds a JSON object: the text from its first '{' to its last
\* '}' is one, or the whole text is one
HoldsJsonObject(text) ==
    LET cleaned == Strip(text)
        opens   == { i \in 1..Len(cleaned) : cleaned[i] = "{" }
        closes  == { j \in 1..Len(cleaned) : cleaned[j] = "}" }
        first   == CHOOSE i \in opens : \A o \in opens : i <= o
        last    == CHOOSE j \in closes : \A o \in closes : o <= j
        whole   == JsonLoads(cleaned)
    IN  \/ opens # {} /\ closes # {} /\ first < last /\ JsonLoads(SubSeq(cleaned, first, last)).ok
        \/ whole.ok /\ IsDict(whole.val)

\* the model answered with text
Answered == pc \in { "generated", "extracted" } /\ response.kind = "text"

\* C14, as claimed: when the response text holds no JSON object (prose, a JSON
\* number or list, text no tier turns into field values) extract_site_report_data
\* returns None, never a record.
C14_Original ==
    Extracted /\ Answered /\ ~HoldsJsonObject(response.text) => record.t = "none"

----------------------------------------------------------------------------
\* the ordered three-tier chain: the text between the first '{' and the last '}'
\* is parsed; if that fails the whole response is parsed; if that fails the
\* key-value scan is used
ParseFallingThrough(response_text) ==
    LET cleaned == Strip(response_text)
        opens   == { i \in 1..Len(cleaned) : cleaned[i] = "{" }
        closes  == { j \in 1..Len(cleaned) : cleaned[j] = "}" }
        first   == CHOOSE i \in opens : \A o \in opens : i <= o
        last    == CHOOSE j \in closes : \A o \in closes : o <= j
        braces  == IF opens # {} /\ closes # {} /\ first < last
                   THEN JsonLoads(SubSeq(cleaned, first, last)) ELSE Fail
        whole   == JsonLoads(cleaned)
    IN  IF braces.ok THEN braces.val
        ELSE IF whole.ok THEN whole.val
        ELSE ExtractKeyValueFromText(cleaned)

\* C15, as claimed: parse_gemini_response returns what the ordered three-tier
\* chain returns, so a response whose braces do not form valid JSON still reaches
\* tiers 2 and 3.
C15_Original ==
    Extracted /\ Answered /\ response.text # <<>> =>
        Is(raw, ParseFallingThrough(response.text))

----------------------------------------------------------------------------
\* C16

\* extract_text_from_pdf has returned or raised
Parsed == pc = "parsed"

\* direct extraction fails entirely: the file cannot be opened, or no page can be
\* read
DirectFails(file) ==
    \/ ~file.plumber_opens
    \/ \A k \in 1..Len(file.pages) : file.pages[k].direct = Raises

\* OCR fails entirely: the file cannot be opened, or no page can be rendered and
\* recognised
OcrFails(file) ==
    \/ ~file.fitz_opens
    \/ \A k \in 1..Len(file.pages) :
           ~file.pages[k].ocr.renders \/ file.pages[k].ocr.primary = Raises

\* C16: extract_text_from_pdf never raises: whatever fails (the file's seek, the
\* opening of the file by either library, a page, an OCR configuration), it
\* returns a string, and the string is empty when both direct extraction and
\* OCR fail entirely.
C16_ExtractTextNeverRaises ==
    Parsed =>
        /\ raw_text.t = "str"
        /\ (DirectFails(uploaded_file) /\ OcrFails(uploaded_file) => raw_text.v = <<>>)
        /\ (~uploaded_file.seeks => raw_text.v = <<>>)

\* a file whose seek works is opened by neither library, and the empty string is
\* returned
C16_Witness ==
    /\ Parsed
    /\ uploaded_file.seeks
    /\ ~uploaded_file.plumber_opens
    /\ ~uploaded_file.fitz_opens
    /\ raw_text = S(<<>>)

----------------------------------------------------------------------------
\* C17

\* generate_daily_diary_pdf has returned or raised
Rendered == pc = "rendered"

\* the positions of the canvas at which a text made from a row of a section is
\* drawn
RowTexts(section) ==
    { k \in DOMAIN canvas :
        /\ canvas[k].op = "drawString"
        /\ Len(canvas[k].of) = 3
        /\ canvas[k].of[1] = section }

\* the positions of the canvas at which the sn of a row of a section is drawn
SnTexts(section) == { k \in RowTexts(section) : canvas[k].of[3] = "sn" }

\* the rows of the section the drawn sn texts belong to, counted from 0
RowsDrawn(section) == { canvas[k].of[2] : k \in SnTexts(section) }

\* the capacities the form is stated to have
StatedCapacity(section) ==
    CASE section = "activities"  -> 5
      [] section = "equipment"   -> 10
      [] section = "personnel"   -> 28
      [] section = "unsafe_acts" -> 2

\* the rows a sub-column is stated to hold; the single-column sections hold all
\* their rows in the left column
StatedPerColumn(section) ==
    CASE section = "activities"  -> 5
      [] section = "equipment"   -> 5
      [] section = "personnel"   -> 14
      [] section = "unsafe_acts" -> 2

Least(a, b) == IF a < b THEN a ELSE b

\* C17: for each of the four tabular sections the renderer draws exactly
\* min(len(rows), capacity) data rows, namely the first ones in list order, each
\* once, with capacities activities 5, equipment 10 (5 per sub-column, the left
\* one filled first), personnel 28 (14 per sub-column) and unsafe_acts 2; rows
\* beyond the capacity are dropped and nothing is raised.
C17_FirstRowsDrawnOnce ==
    Rendered /\ reportlab.fails = "none" =>
        /\ output.t = "bytes"
        /\ output.v = canvas
        /\ \A section \in TableSections :
             LET rows  == RowsOf(record, section)
                 count == Least(Len(rows), StatedCapacity(section))
                 per   == StatedPerColumn(section)
             IN  /\ RowsDrawn(section) = 0..(count - 1)
                 /\ Cardinality(SnTexts(section)) = count
                 /\ \A k \in RowTexts(section) : canvas[k].of[2] < count
                 /\ \A k \in SnTexts(section) :
                      LET idx == canvas[k].of[2]
                      IN  /\ canvas[k].text = Str(Get(rows[idx + 1].v, "sn", I(idx + 1)))
                          /\ canvas[k].x = IF idx < per THEN mm(12) ELSE mm(107)
                 /\ \A j, k \in SnTexts(section) :
                      LET a == canvas[j].of[2]
                          b == canvas[k].of[2]
                      IN  /\ (a < b /\ (a < per <=> b < per) => canvas[j].y > canvas[k].y)
                          /\ (b = a + per => canvas[j].y = canvas[k].y)

\* 40 personnel rows are rendered: exactly the first 28 are drawn
C17_Witness ==
    /\ Rendered
    /\ output.t = "bytes"
    /\ Len(RowsOf(record, "personnel")) = 40
    /\ RowsDrawn("personnel") = 0..27
    /\ Cardinality(SnTexts("personnel")) = 28

----------------------------------------------------------------------------
\* C18

\* the attributes and row keys whose text is handed to _draw_text_in_cell
NarrativeFields == { "near_miss", "obstruction", "engineers_note" }
FittedKeys == { "description", "equipment", "personnel" }

\* the positions of the canvas at which _draw_text_in_cell has drawn
FittedTexts ==
    { k \in DOMAIN canvas :
        /\ canvas[k].op = "drawString"
        /\ \/ Len(canvas[k].of) = 1 /\ canvas[k].of[1] \in NarrativeFields
           \/ Len(canvas[k].of) = 3 /\ canvas[k].of[3] \in FittedKeys }

\* the text _draw_text_in_cell was given for what it drew: the attribute, or the
\* key of the row, made a string by _safe_text
GivenText(of) ==
    IF Len(of) = 1 THEN SafeText(record.v[of[1]])
    ELSE SafeText(Get(RowsOf(record, of[1])[of[2] + 1].v, of[3], S(<<>>)))

\* the max_width _draw_text_in_cell was given: 185 mm for a narrative, 175 mm for
\* a description, 45 mm for a name in a sub-column
GivenWidth(of) ==
    IF Len(of) = 1 THEN mm(185)
    ELSE IF of[3] = "description" THEN mm(175)
    ELSE mm(45)

EndsWithEllipsis(text) ==
    /\ Len(text) >= 3
    /\ SubSeq(text, Len(text) - 2, Len(text)) = Ellipsis

\* the width of what was drawn at position k of the canvas, in the font it was
\* drawn in
DrawnWidth(k) == StringWidth(canvas[k].text, canvas[k].fontname, canvas[k].fontsize)

\* C18: when _draw_text_in_cell is given a text wider than max_width, the text
\* it draws ends with "..." and is not wider than max_width; a text that fits is
\* drawn unchanged. In every cell of the form one character and the "..." fit,
\* so the text drawn for a wide text is a non-empty start of the text followed
\* by "...".
C18_DrawnTextFitsCell ==
    Rendered =>
        /\ \A ch \in Measured : \A fontsize \in { 6, 7 } :
             ~Exceeds(StringWidth(<< ch >> \o Ellipsis, "Helvetica", fontsize), mm(45))
        /\ \A k \in FittedTexts :
             LET text      == GivenText(canvas[k].of)
                 max_width == GivenWidth(canvas[k].of)
                 drawn     == canvas[k].text
             IN  IF Exceeds(StringWidth(text, canvas[k].fontname, canvas[k].fontsize),
                            max_width)
                 THEN /\ EndsWithEllipsis(drawn)
                      /\ ~Exceeds(DrawnWidth(k), max_width)
                      /\ Len(drawn) - 3 \in 1..(Len(text) - 1)
                      /\ SubSeq(drawn, 1, Len(drawn) - 3) = SubSeq(text, 1, Len(drawn) - 3)
                 ELSE drawn = text

\* a record whose near_miss is wider than its cell and whose obstruction fits is
\* rendered: the first is drawn cut and ending with "...", the second unchanged
C18_Witness ==
    /\ Rendered
    /\ \E k \in FittedTexts :
         /\ canvas[k].of = << "near_miss" >>
         /\ Exceeds(StringWidth(GivenText(canvas[k].of), "Helvetica", 7), mm(185))
         /\ EndsWithEllipsis(canvas[k].text)
         /\ Len(canvas[k].text) < Len(GivenText(canvas[k].of))
    /\ \E k \in FittedTexts :
         /\ canvas[k].of = << "obstruction" >>
         /\ Len(canvas[k].text) = LongRun
         /\ canvas[k].text = GivenText(canvas[k].of)

----------------------------------------------------------------------------
\* C19

\* a call of the canvas library has raised while the document was drawn
DrawingFailed == reportlab.fails # "none"

----------------------------------------------------------------------------
\* C20

\* the keys a materials row is stated to consist of
MaterialKeys == { "type", "unit", "quantity", "location" }

\* C20: the rows of the materials section of a normalized record consist only
\* of type, unit, quantity and location; normalization never adds an sn to a
\* materials row.
C20_Original ==
    Normalized =>
        \A k \in 1..Len(OutRows("materials")) :
            /\ DOMAIN OutRows("materials")[k].v = MaterialKeys
            /\ "sn" \notin DOMAIN OutRows("materials")[k].v

----------------------------------------------------------------------------
\* C21

\* the positions of the canvas at which a text made from the record is drawn
RecordTexts == { k \in DOMAIN canvas : canvas[k].op = "drawString" }

\* the width of the cell a text made from the record is drawn in: a quarter of
\* the form for the project grid, the date cell, a third of the form for a
\* signature, the sn and no columns, and the cell handed to _draw_text_in_cell
CellWidth(of) ==
    IF Len(of) = 1
    THEN CASE of[1] \in { "project", "employer", "consultant", "contractor" } -> mm(190) \div 4
           [] of[1] = "date" -> mm(40)
           [] of[1] \in { "prepared_by", "checked_by", "approved_by" } -> mm(190) \div 3
           [] of[1] \in NarrativeFields -> mm(185)
    ELSE CASE of[3] = "sn" -> mm(10)
           [] of[3] = "no" -> mm(35)
           [] OTHER -> GivenWidth(of)

\* the lines a narrative block is drawn on
NarrativeLines(field) == { k \in RecordTexts : canvas[k].of = << field >> }

\* C21: the text-fitting policy is applied to every text of the record the
\* renderer draws: none is drawn wider than its cell, and a narrative wider than
\* one line is wrapped onto further lines.
C21_Original ==
    Rendered /\ output.t = "bytes" =>
        /\ \A k \in RecordTexts : ~Exceeds(DrawnWidth(k), CellWidth(canvas[k].of))
        /\ \A field \in NarrativeFields :
             Exceeds(StringWidth(SafeText(record.v[field]), "Helvetica", 7), mm(185))
                 => Cardinality(NarrativeLines(field)) >= 2

\* the parts of the statement: every text fits its cell; wide narratives are
\* wrapped
AllTextsFitCells ==
    Rendered /\ output.t = "bytes" =>
        \A k \in RecordTexts : ~Exceeds(DrawnWidth(k), CellWidth(canvas[k].of))
WideNarrativesWrapped ==
    Rendered /\ output.t = "bytes" =>
        \A field \in NarrativeFields :
             Exceeds(StringWidth(SafeText(record.v[field]), "Helvetica", 7), mm(185))
                 => Cardinality(NarrativeLines(field)) >= 2

----------------------------------------------------------------------------
\* C23

\* the direct text of the uploaded file and what OCR reads from it
DirectText == ExtractWithPdfplumber(uploaded_file)
OcrText == ExtractWithOcr(uploaded_file)

\* C23: extract_text_from_pdf calls OCR exactly when the direct text, stripped,
\* is empty or shorter than 50 characters; the text it post-processes is then
\* the OCR text alone, even when OCR reads less or nothing, and the direct text
\* otherwise.
C23_OcrIffDirectShort ==
    Parsed /\ uploaded_file.seeks =>
        /\ ocr_called <=> Len(Strip(DirectText)) < 50
        /\ ocr_called => text_content = S(OcrText)
        /\ ~ocr_called => text_content = S(DirectText)
        /\ ((text_content.v = <<>>) <=> (raw_text.v = <<>>))

\* a direct text of 49 characters is discarded for an OCR that reads nothing
C23_Witness ==
    /\ Parsed
    /\ uploaded_file.seeks
    /\ Len(Strip(DirectText)) = 49
    /\ ocr_called
    /\ OcrText = <<>>
    /\ raw_text = S(<<>>)

\* a direct text of exactly 50 characters is kept and OCR is not called
DirectAtThreshold ==
    /\ Parsed
    /\ uploaded_file.seeks
    /\ Len(Strip(DirectText)) = 50
    /\ ~ocr_called

----------------------------------------------------------------------------
\* C24

\* the pages of the uploaded file on which every OCR configuration returns a text
ReadablePages ==
    { k \in 1..Len(uploaded_file.pages) :
        LET ocr == uploaded_file.pages[k].ocr
        IN  /\ ocr.renders
            /\ ocr.primary # Raises
            /\ \A i \in 1..Len(ocr.alts) : ocr.alts[i] # Raises }

\* C24: when the primary OCR pass reads fewer than 20 characters (stripped),
\* _perform_enhanced_ocr returns the longest text among the primary one and the
\* four alternatives; when it reads at least 20, it returns the primary text.
C24_Original ==
    Parsed /\ ocr_called /\ uploaded_file.fitz_opens =>
        \A k \in ReadablePages :
            LET ocr  == uploaded_file.pages[k].ocr
                text == PerformEnhancedOcr(ocr)
            IN  IF Len(Strip(ocr.primary.v)) < 20
                THEN /\ Len(Strip(text)) >= Len(Strip(ocr.primary.v))
                     /\ \A i \in 1..Len(ocr.alts) :
                            Len(Strip(text)) >= Len(Strip(ocr.alts[i].v))
                ELSE text = ocr.primary.v

----------------------------------------------------------------------------
\* C25

\* the lines of a text that hold more than whitespace
NonBlankLines(text) ==
    LET lines == SplitLines(text)
    IN  { k \in 1..Len(lines) : Strip(lines[k]) # <<>> }

\* the positions of a text at which a blank line separates two lines
BlankSeparators(text) ==
    { i \in 1..(Len(text) - 1) : text[i] = "\n" /\ text[i + 1] = "\n" }

\* C25: line structure survives post-processing: the non-blank lines of the
\* extracted text remain separate lines of the returned text, and where blank
\* lines stood between two of them one blank line remains.
C25_Original ==
    Parsed /\ uploaded_file.seeks =>
        /\ Cardinality(NonBlankLines(raw_text.v))
               = Cardinality(NonBlankLines(text_content.v))
        /\ BlankSeparators(Strip(text_content.v)) # {}
               => BlankSeparators(raw_text.v) # {}

----------------------------------------------------------------------------
\* C26

\* the positions of the canvas at which a border is drawn, in order: every
\* section but the signatures, and every narrative block, starts with one
Borders ==
    LET at == { k \in DOMAIN canvas : canvas[k].op = "rect" }
    IN  [ i \in 1..Cardinality(at) |->
            CHOOSE k \in at : Cardinality({ j \in at : j <= k }) = i ]

\* the positions at which the twelve parts of a whole drawing start: the eleven
\* borders, and for the signatures the first line drawn after the last border
PartStarts ==
    LET borders == Borders
        after   == { k \in (borders[11] + 1)..Len(canvas) : canvas[k].op = "line" }
    IN  borders \o << CHOOSE k \in after : \A j \in after : k <= j >>

\* the positions of part i, for the starts of the twelve parts
PartSpan(starts, i) ==
    starts[i]..(IF i < 12 THEN starts[i + 1] - 1 ELSE Len(canvas))

\* the heights the twelve parts are stated to have, in the stated order: header,
\* title, project, date and weather, activities, equipment, personnel, unsafe
\* acts, near miss, obstruction, engineer's note, signatures
StatedHeights ==
    << mm(22), mm(10), mm(14), mm(8), mm(25), mm(22), mm(55), mm(18), mm(12), mm(12),
       mm(20), mm(30) >>

\* the text each part is known by
PartTitles ==
    << "Company Name", "Title: Daily Diary", "PROJECT", "Weather condition: ",
       "3. Major Activities on progress, Chain age and Location",
       "4. Contractor's Equipment (dumper truck, excavator, water pump etc.)",
       "5. Contractor's Personnel (Foreman, laborer, driver etc.)",
       "6. Unsafe Acts / Conditions Observed", "7. Near Miss/Accidents/Incidents:",
       "8. Obstruction/Action Plans:", "9. Engineer's Note:", "Prepared by" >>

\* the top of part i when the parts are stacked from the top margin down
RECURSIVE StatedTop(_)
StatedTop(i) == IF i = 1 THEN mm(297) - mm(10) ELSE StatedTop(i - 1) - StatedHeights[i - 1]

\* the lowest and the highest point of what is drawn at position k
Lowest(k) ==
    CASE canvas[k].op = "line" -> IF canvas[k].y1 < canvas[k].y2 THEN canvas[k].y1 ELSE canvas[k].y2
      [] OTHER -> canvas[k].y
Highest(k) ==
    CASE canvas[k].op = "line" -> IF canvas[k].y1 < canvas[k].y2 THEN canvas[k].y2 ELSE canvas[k].y1
      [] canvas[k].op \in { "rect", "drawImage" } -> canvas[k].y + canvas[k].height
      [] OTHER -> canvas[k].y

\* the values of the cursor when the ten drawing calls are stacked from the top
\* margin down; the three narrative blocks are drawn by one call
StatedCursor ==
    << StatedTop(1), StatedTop(2), StatedTop(3), StatedTop(4), StatedTop(5), StatedTop(6),
       StatedTop(7), StatedTop(8), StatedTop(9), StatedTop(12), StatedTop(12) - StatedHeights[12] >>

\* C26: the sections are drawn top-down in the fixed order header, title,
\* project, date and weather, activities, equipment, personnel, unsafe acts,
\* near miss, obstruction, engineer's note, signatures; each starts where the one
\* before it ended, what a section draws lies between its start and its end, and
\* the cursor moves down by the same constant whatever the record holds.
C26_SectionsStacked ==
    Rendered =>
        /\ cursor = SubSeq(StatedCursor, 1, Len(cursor))
        /\ reportlab.fails = "none" =>
             /\ Len(cursor) = 11
             /\ Len(Borders) = 11
             /\ LET starts == PartStarts
                IN  /\ starts[1] = 1
                    /\ \A i \in 1..11 :
                         /\ starts[i] < starts[i + 1]
                         /\ canvas[starts[i]].y + canvas[starts[i]].height = StatedTop(i)
                         /\ canvas[starts[i]].height = StatedHeights[i]
                    /\ \A i \in 1..12 :
                         /\ \A k \in PartSpan(starts, i) :
                              /\ Highest(k) <= StatedTop(i)
                              /\ Lowest(k) >= StatedTop(i) - StatedHeights[i]
                         /\ \E k \in PartSpan(starts, i) :
                              canvas[k].op = "label" /\ canvas[k].words = PartTitles[i]

\* a record with more rows than the form has slots is drawn: the twelve parts
\* are there and the cursor has ended 39 mm above the bottom of the page
C26_Witness ==
    /\ Rendered
    /\ reportlab.fails = "none"
    /\ Len(RowsOf(record, "activities")) > 5
    /\ Len(Borders) = 11
    /\ cursor[Len(cursor)] = mm(39)

----------------------------------------------------------------------------
\* C28

\* the positions of the canvas at which a line is drawn across the form in part i
CrossLines(starts, i) ==
    { k \in PartSpan(starts, i) : canvas[k].op = "line" /\ canvas[k].y1 = canvas[k].y2 }

\* C28: the form fits on one A4 page: from the page height less the 10 mm margin
\* the cursor ends at or above the 10 mm bottom margin, and in each table section
\* the header line and the row lines, one per slot, are not below the section's
\* bottom border.
C28_LayoutFitsPage ==
    Rendered /\ reportlab.fails = "none" =>
        /\ cursor[1] = mm(297) - mm(10)
        /\ \A i \in 1..Len(cursor) : cursor[i] >= mm(10) /\ cursor[i] <= cursor[1]
        /\ LET starts == PartStarts
           IN  \A i \in 5..8 :
                 /\ Cardinality(CrossLines(starts, i)) = 1 + << 5, 5, 14, 2 >>[i - 4]
                 /\ \A k \in CrossLines(starts, i) : canvas[k].y1 >= canvas[starts[i]].y

\* the form is drawn with all 28 personnel slots filled: the last row line of
\* the personnel section lies on the bottom border and the cursor ends above the
\* margin
C28_Witness ==
    /\ Rendered
    /\ reportlab.fails = "none"
    /\ Len(RowsOf(record, "personnel")) >= 28
    /\ \E k \in CrossLines(PartStarts, 7) : canvas[k].y1 = canvas[PartStarts[7]].y
    /\ cursor[11] > mm(10)

----------------------------------------------------------------------------
\* C27

\* the x of the column dividers that cross the height y to the right of x, and the
\* right border of the form
DividersRightOf(x, y) ==
    { canvas[k].x1 : k \in { j \in DOMAIN canvas :
                               /\ canvas[j].op = "line"
                               /\ canvas[j].x1 = canvas[j].x2
                               /\ canvas[j].x1 > x
                               /\ canvas[j].y1 <= y /\ y <= canvas[j].y2 } }
        \cup { mm(200) }

\* the x at which the texts drawn to the right of x in the row at height y start
TextsRightOf(x, y) ==
    { canvas[k].x : k \in { j \in DOMAIN canvas :
                              /\ canvas[j].op \in { "drawString", "label" }
                              /\ canvas[j].y = y
                              /\ canvas[j].x > x } }

\* the texts of the table sections drawn by _draw_text_in_cell
FittedCells == { k \in FittedTexts : Len(canvas[k].of) = 3 }

\* C27: in every table section a text fitted with _draw_text_in_cell stays
\* inside its cell: its start x plus the max_width handed to the fitter exceeds
\* neither the x of the next column divider nor the start x of the next text in
\* the same row.
C27_Original ==
    Rendered /\ output.t = "bytes" =>
        \A k \in FittedCells :
            LET reach == canvas[k].x + GivenWidth(canvas[k].of)
            IN  /\ \A x \in DividersRightOf(canvas[k].x, canvas[k].y) : reach <= x
                /\ \A x \in TextsRightOf(canvas[k].x, canvas[k].y) : reach <= x

\* an equipment or personnel name of the right sub-column is drawn over the no
\* that follows it in the row
NameOverNo ==
    /\ Rendered
    /\ \E k \in FittedCells :
         /\ canvas[k].x = mm(132)
         /\ \E x \in TextsRightOf(canvas[k].x, canvas[k].y) :
              Exceeds(DrawnWidth(k), x - canvas[k].x)

----------------------------------------------------------------------------
\* Properties of the application session (under AppSpec)

\* the record session_state holds, and its two page flags
ExtractedData == Get(session_state, "extracted_data", None)
ReadyForPdf == PageTruthy(Get(session_state, "ready_for_pdf", B(FALSE)))
UploadSuccess == PageTruthy(Get(session_state, "upload_success", B(FALSE)))

\* C22: in every reachable session state, ready_for_pdf being true implies that
\* the record in session_state.extracted_data passes validate(): validate()
\* returns no errors for it, also after a later edit submission that failed
\* validation.
C22_Original ==
    ReadyForPdf =>
        /\ ExtractedData.t = "DailyDiaryData"
        /\ ~Validate(ExtractedData).raised
        /\ Validate(ExtractedData).errors = <<>>

\* a submission was rejected after an earlier one had been saved
RejectedAfterSaved == pc = "rejected" /\ ReadyForPdf

\* C29: whenever Generate PDF has been pressed with ready_for_pdf true, the
\* layout engine's render operation was run on the saved record, and when the
\* rendering did not fail its bytes are in session_state.generated_pdf.
C29_Original ==
    pc \in { "generated", "generation_failed" } =>
        /\ output = GenerateDailyDiaryPdf(reportlab, ExtractedData)
        /\ output.t = "bytes" => Get(session_state, "generated_pdf", None) = output

\* C30: upload_success true implies extracted_data is not None; ready_for_pdf
\* true implies extracted_data is not None; and a run of the upload page in
\* which a different file was selected leaves extracted_data None and both
\* flags false.
C30_FlagsImplyData ==
    /\ UploadSuccess => ExtractedData # None
    /\ ReadyForPdf => ExtractedData # None
    /\ pc \in { "selected", "replaced" } =>
           ExtractedData = None /\ ~UploadSuccess /\ ~ReadyForPdf

\* a different file has just been selected in a session that held the data of
\* the previous one: the data and both flags are reset
C30_Witness ==
    /\ pc = "replaced"
    /\ ExtractedData = None /\ ~UploadSuccess /\ ~ReadyForPdf

====
